---- MODULE Spec2Model ----
(***************************************************************************)
(* Orchesity IDE OSS: the LLM orchestrator (services/llm_orchestrator.py)  *)
(* with its response cache (services/cache.py) and the Dynamic Weight      *)
(* Algorithm it feeds.                                                     *)
(*                                                                         *)
(* The orchestrator runs on one asyncio event loop: the code between two   *)
(* awaits is one atomic step, and every action below is one such stretch.  *)
(* services/DWA.py is not part of the sources at hand: the definitions     *)
(* under "DWA" follow section 4.2 of the specification, on a scale of      *)
(* hundredths (100 stands for 1.0).                                        *)
(***************************************************************************)
EXTENDS Integers, Sequences, FiniteSets, TLC

VARIABLES
    has_api_key,       \* settings.<provider>_api_key is set, per provider
    max_concurrent_requests,  \* settings.max_concurrent_requests
    routing_strategy,  \* LLMOrchestrator.routing_strategy
    current_load,      \* providers_load[p].current_load
    error_rate,        \* providers_load[p].error_rate, in hundredths
    provider_metrics,  \* dwa.provider_metrics[p]
    rr_cursor,         \* the DWA's round-robin cursor
    redis_configured,  \* the settings name a Redis server (see CacheConnect)
    is_connected,      \* RedisCache.is_connected (with redis_client set)
    redis_up,          \* the Redis server answers (else every command raises)
    redis,             \* the Redis keyspace: cache key -> stored JSON or Absent
    pc,                \* per orchestrate call: where the coroutine stands
    request,           \* per call: the OrchestrationRequest (prompt, stream)
    providers_to_use,  \* per call: the list _select_providers returned
    tasks,             \* per call: the tasks created for providers_to_use
    outcome,           \* per call: the (results, errors) pair it returned
    requests_left,     \* orchestrate calls the callers have yet to make
    limit_concurrency, \* requests the server runs at the same time
    http,              \* per call: the request POST /orchestrate received and its answer
    sessions,          \* routers/user.py: _sessions, session id -> UserSession
    answer,            \* the last answer of the user router
    created,           \* sessions created so far
    deleted            \* ids of the sessions deleted so far

vars == <<has_api_key, max_concurrent_requests, routing_strategy, current_load, error_rate,
          provider_metrics, rr_cursor, redis_configured, is_connected,
          redis_up, redis, pc, request, providers_to_use, tasks, outcome, requests_left,
          limit_concurrency, http, sessions, answer, created, deleted>>

\* the state of the user router, and the state of everything else
userVars == <<sessions, answer, created, deleted>>

llmVars == <<has_api_key, max_concurrent_requests, routing_strategy, current_load,
             error_rate, provider_metrics, rr_cursor, redis_configured,
             is_connected, redis_up, redis, pc, request, providers_to_use, tasks,
             outcome, requests_left, limit_concurrency, http>>

(***************************************************************************)
(* Bounds of the model.                                                    *)
(***************************************************************************)
NumCalls == 2           \* orchestrate calls that may run at the same time, at most
MaxOrchestrations == 2  \* orchestrate calls made in one behaviour, at most
NumPrompts == 2         \* distinct prompts
NumTexts == 2           \* distinct response texts a provider may return
MaxLatency == 1         \* response times a provider call may take
MaxRequestLen == 4      \* providers named by one request
MaxReports == 12        \* outcomes reported to the DWA in one behaviour of SpecDwa
MaxReported == 2        \* providers with reported outcomes in such a behaviour
MaxReportsBetween == 5  \* outcomes on record at a time in a behaviour of SpecDwaCalls
MaxFailuresBefore == 9  \* failures in a row a provider has behind it in SpecSelection
MaxConcurrentRequests == 8   \* the largest max_concurrent_requests configured
MaxSessions == 3    \* sessions created in one behaviour of SpecSessions
MaxTime == 2        \* the readings of the clock, 1..MaxTime

Calls == 1..NumCalls
Prompts == 1..NumPrompts
Texts == 1..NumTexts
Latencies == 1..MaxLatency

None == "none"
Absent == <<>>     \* no value under a key (the stored values are tuples)

(***************************************************************************)
(* Providers (models.LLMProvider, in enumeration order).                   *)
(***************************************************************************)
ProviderOrder == <<"openai", "anthropic", "gemini", "grok">>
Providers == {ProviderOrder[i] : i \in 1..Len(ProviderOrder)}

IndexOf(p) == CHOOSE i \in 1..Len(ProviderOrder) : ProviderOrder[i] = p

InSeq(x, s) == \E i \in 1..Len(s) : s[i] = x

Range(s) == {s[i] : i \in 1..Len(s)}

Min(a, b) == IF a <= b THEN a ELSE b
Max(a, b) == IF a >= b THEN a ELSE b

RoutingStrategies == {"round_robin", "load_balanced", "random", "priority"}

\* the value of max_concurrent_requests when the environment sets none
DefaultMaxConcurrentRequests == 5

\* _initialize_provider_loads: max_load of every provider
max_load == max_concurrent_requests \div Len(ProviderOrder)

\* _get_provider_model
GetProviderModel(p) ==
    CASE p = "openai" -> "gpt-4"
      [] p = "anthropic" -> "claude-3-sonnet"
      [] p = "gemini" -> "gemini-pro"
      [] p = "grok" -> "grok-1"
      [] OTHER -> "unknown"

(***************************************************************************)
(* DWA (specification 4.2).                                                *)
(***************************************************************************)
FailureThreshold == 3    \* consecutive failures that make a provider unhealthy
AvailabilityFloor == 10  \* 0.1: the floor of availability
AvailabilityUp == 5      \* the upward nudge on success
AvailabilityDown == 10   \* the downward nudge on failure
WeightAccuracy == 40
WeightSpeed == 30
WeightAvailability == 30
CursorModulus == 12      \* lcm(1..4): the cursor is only read modulo 1..4

NeutralMetrics ==
    [total_requests |-> 0, successful_requests |-> 0,
     consecutive_failures |-> 0, accuracy |-> 100, availability |-> 100,
     avg_response_time |-> 0, is_healthy |-> TRUE]

\* the exponential moving average of the response time
AverageTime(m, rt) ==
    IF m.total_requests = 0 THEN rt ELSE (m.avg_response_time + rt) \div 2

\* the update without its clamps
RecordRequestResultUnclamped(m, success, rt) ==
    LET total == m.total_requests + 1
        succ  == m.successful_requests + (IF success THEN 1 ELSE 0)
        fails == IF success THEN 0 ELSE m.consecutive_failures + 1
        avail == IF success THEN m.availability + 5 ELSE m.availability - 10
    IN  [total_requests |-> total,
         successful_requests |-> succ,
         consecutive_failures |-> fails,
         accuracy |-> (succ * 100) \div total,
         availability |-> avail,
         avg_response_time |-> AverageTime(m, rt),
         is_healthy |->
            IF success THEN avail >= 10
            ELSE m.is_healthy /\ fails < 3 /\ avail >= 10]

\* the update with a success that takes one failure off the count
RecordRequestResultNoReset(m, success, rt) ==
    LET total == m.total_requests + 1
        succ  == m.successful_requests + (IF success THEN 1 ELSE 0)
        fails == IF success THEN Max(0, m.consecutive_failures - 1)
                 ELSE m.consecutive_failures + 1
        avail == IF success THEN Min(100, m.availability + 5)
                 ELSE Max(0, m.availability - 10)
    IN  [total_requests |-> total,
         successful_requests |-> succ,
         consecutive_failures |-> fails,
         accuracy |-> (succ * 100) \div total,
         availability |-> avail,
         avg_response_time |-> AverageTime(m, rt),
         is_healthy |->
            IF success THEN avail >= 10
            ELSE m.is_healthy /\ fails < 3 /\ avail >= 10]

\* the update with a provider unhealthy only beyond the threshold
RecordRequestResultBeyondThreshold(m, success, rt) ==
    LET total == m.total_requests + 1
        succ  == m.successful_requests + (IF success THEN 1 ELSE 0)
        fails == IF success THEN 0 ELSE m.consecutive_failures + 1
        avail == IF success THEN Min(100, m.availability + 5)
                 ELSE Max(0, m.availability - 10)
    IN  [total_requests |-> total,
         successful_requests |-> succ,
         consecutive_failures |-> fails,
         accuracy |-> (succ * 100) \div total,
         availability |-> avail,
         avg_response_time |-> AverageTime(m, rt),
         is_healthy |->
            IF success THEN avail >= 10
            ELSE m.is_healthy /\ fails <= 3 /\ avail >= 10]

\* the update with a success that leaves the health flag as it finds it
RecordRequestResultNoRecovery(m, success, rt) ==
    LET total == m.total_requests + 1
        succ  == m.successful_requests + (IF success THEN 1 ELSE 0)
        fails == IF success THEN 0 ELSE m.consecutive_failures + 1
        avail == IF success THEN Min(100, m.availability + 5)
                 ELSE Max(0, m.availability - 10)
    IN  [total_requests |-> total,
         successful_requests |-> succ,
         consecutive_failures |-> fails,
         accuracy |-> (succ * 100) \div total,
         availability |-> avail,
         avg_response_time |-> AverageTime(m, rt),
         is_healthy |-> m.is_healthy /\ fails < 3 /\ avail >= 10]

\* record_request_result(provider, success, response_time) on one provider's metrics
RecordRequestResult(m, success, rt) ==
    LET total == m.total_requests + 1
        succ  == m.successful_requests + (IF success THEN 1 ELSE 0)
        fails == IF success THEN 0 ELSE m.consecutive_failures + 1
        avail == IF success
                 THEN Min(100, m.availability + AvailabilityUp)
                 ELSE Max(0, m.availability - AvailabilityDown)
    IN  [total_requests |-> total,
         successful_requests |-> succ,
         consecutive_failures |-> fails,
         accuracy |-> (succ * 100) \div total,
         availability |-> avail,
         avg_response_time |-> AverageTime(m, rt),
         is_healthy |->
            IF success
            THEN avail >= AvailabilityFloor
            ELSE m.is_healthy /\ fails < FailureThreshold
                              /\ avail >= AvailabilityFloor]

SelectionPolicies == {"weighted_composite", "round_robin", "max_accuracy", "priority"}

Speed(m) == IF m.avg_response_time = 0 THEN 100 ELSE 100 \div m.avg_response_time

Score(m) == WeightAccuracy * m.accuracy + WeightSpeed * Speed(m)
            + WeightAvailability * m.availability

\* the candidates with the health flag left out
CandidatesWhateverHealth(metrics, exclude) ==
    SelectSeq(ProviderOrder,
              LAMBDA p : metrics[p].availability > 0 /\ p \notin exclude)

\* the providers select_best_provider chooses among, in enumeration order
Candidates(metrics, exclude) ==
    SelectSeq(ProviderOrder,
              LAMBDA p : metrics[p].is_healthy /\ metrics[p].availability > 0
                         /\ p \notin exclude)

\* q ranks strictly before p under the policy
RanksBefore(metrics, policy, q, p) ==
    LET mq == metrics[q]
        mp == metrics[p]
    IN  CASE policy = "weighted_composite" ->
               \/ Score(mq) > Score(mp)
               \/ /\ Score(mq) = Score(mp)
                  /\ \/ mq.consecutive_failures < mp.consecutive_failures
                     \/ /\ mq.consecutive_failures = mp.consecutive_failures
                        /\ IndexOf(q) < IndexOf(p)
          [] policy = "max_accuracy" ->
               \/ mq.accuracy > mp.accuracy
               \/ /\ mq.accuracy = mp.accuracy
                  /\ \/ mq.availability > mp.availability
                     \/ /\ mq.availability = mp.availability
                        /\ IndexOf(q) < IndexOf(p)
          [] OTHER -> IndexOf(q) < IndexOf(p)

\* round-robin that stays on the last candidate once the cursor has passed it
SelectBestProviderNoWrap(metrics, cursor, policy, exclude) ==
    LET cands == Candidates(metrics, exclude)
        next  == IF policy = "round_robin" THEN (cursor + 1) % 12 ELSE cursor
    IN  IF Len(cands) = 0 THEN [best |-> None, cursor |-> next]
        ELSE IF policy = "round_robin"
        THEN [best |-> cands[Min(cursor, Len(cands) - 1) + 1], cursor |-> next]
        ELSE [best |-> CHOOSE p \in Range(cands) :
                          \A q \in Range(cands) \ {p} :
                              ~RanksBefore(metrics, policy, q, p),
              cursor |-> next]

\* select_best_provider(exclude_providers): the provider chosen and the cursor after
SelectBestProvider(metrics, cursor, policy, exclude) ==
    LET cands == Candidates(metrics, exclude)
        next  == IF policy = "round_robin" THEN (cursor + 1) % CursorModulus
                 ELSE cursor
    IN  IF Len(cands) = 0 THEN [best |-> None, cursor |-> next]
        ELSE IF policy = "round_robin"
        THEN [best |-> cands[(cursor % Len(cands)) + 1], cursor |-> next]
        ELSE [best |-> CHOOSE p \in Range(cands) :
                          \A q \in Range(cands) \ {p} :
                              ~RanksBefore(metrics, policy, q, p),
              cursor |-> next]

\* reset_provider_metrics(provider): the neutral defaults for that provider
ResetProviderMetrics(metrics, p) == [metrics EXCEPT ![p] = NeutralMetrics]

(***************************************************************************)
(* Provider selection (LLMOrchestrator._select_providers).                 *)
(***************************************************************************)
\* _map_routing_strategy_to_dwa_policy
MapRoutingStrategyToDwaPolicy(strategy) ==
    CASE strategy = "load_balanced" -> "weighted_composite"
      [] strategy = "round_robin" -> "round_robin"
      [] strategy = "random" -> "round_robin"
      [] strategy = "priority" -> "max_accuracy"
      [] OTHER -> "max_accuracy"

\* the check with the load left out
IsProviderAvailableWhateverLoad(p) == has_api_key[p]

\* _is_provider_available: an API key is configured and the load is below the cap
IsProviderAvailable(p) == has_api_key[p] /\ current_load[p] < max_load

\* get_provider_stats: what it reports of every provider
GetProviderStats ==
    [p \in Providers |->
        [current_load |-> current_load[p], max_load |-> max_load,
         error_rate |-> error_rate[p], available |-> IsProviderAvailable(p)]]

\* the list comprehension [p for p in providers if self._is_provider_available(p)]
AvailableOf(providers) == SelectSeq(providers, IsProviderAvailable)

AvailableProvidersNoFallback(requested) == AvailableOf(requested)

\* available_providers: the requested ones, else every known one
AvailableProviders(requested) ==
    IF Len(AvailableOf(requested)) > 0 THEN AvailableOf(requested)
    ELSE AvailableOf(ProviderOrder)

ShortlistCap == 3

\* the loop of the multi-provider branch: k iterations left
RECURSIVE ShortlistLoop(_, _, _, _, _)
ShortlistLoop(k, available, selected, exclude, cursor) ==
    IF k = 0 THEN [selected |-> selected, cursor |-> cursor]
    ELSE LET r == SelectBestProvider(provider_metrics, cursor,
                      MapRoutingStrategyToDwaPolicy(routing_strategy), exclude)
         IN  IF r.best = None THEN [selected |-> selected, cursor |-> r.cursor]
             ELSE IF InSeq(r.best, available)
             THEN ShortlistLoop(k - 1, available, Append(selected, r.best),
                                exclude \cup {r.best}, r.cursor)
             ELSE ShortlistLoop(k - 1, available, selected, exclude, r.cursor)

\* _load_balanced_select: the first provider of lowest current load
LoadBalancedSelect(providers) ==
    LET i == CHOOSE i \in 1..Len(providers) :
                 \A j \in 1..Len(providers) :
                     \/ current_load[providers[i]] < current_load[providers[j]]
                     \/ /\ current_load[providers[i]] = current_load[providers[j]]
                        /\ i <= j
    IN  <<providers[i]>>

\* _priority_select: the first provider of the priority order that is in the list
PrioritySelect(providers) ==
    LET i == CHOOSE i \in 1..Len(ProviderOrder) :
                 /\ InSeq(ProviderOrder[i], providers)
                 /\ \A j \in 1..(i - 1) : ~InSeq(ProviderOrder[j], providers)
    IN  <<ProviderOrder[i]>>

\* the fallback on the routing strategy; rnd is what random.choice draws
FallbackSelect(available, rnd) ==
    CASE routing_strategy = "round_robin" -> <<available[1]>>
      [] routing_strategy = "load_balanced" -> LoadBalancedSelect(available)
      [] routing_strategy = "random" -> <<available[((rnd - 1) % Len(available)) + 1]>>
      [] routing_strategy = "priority" -> PrioritySelect(available)
      [] OTHER -> <<available[1]>>

\* the branches with the requested provider dispatched whatever its availability
DwaSelectionUnvalidated(requested, available) ==
    IF Len(requested) = 1
    THEN [selected |-> requested, cursor |-> rr_cursor]
    ELSE ShortlistLoop(Min(Len(available), ShortlistCap), available, <<>>, {},
                       rr_cursor)

\* the branches with a loop that runs once for every available provider
DwaSelectionUncapped(requested, available) ==
    IF Len(requested) = 1
    THEN IF provider_metrics[requested[1]].availability > 10
         THEN [selected |-> requested, cursor |-> rr_cursor]
         ELSE LET r == SelectBestProvider(provider_metrics, rr_cursor,
                           MapRoutingStrategyToDwaPolicy(routing_strategy), {})
              IN  [selected |-> IF r.best = None THEN <<>> ELSE <<r.best>>,
                   cursor |-> r.cursor]
    ELSE ShortlistLoop(Len(available), available, <<>>, {}, rr_cursor)

\* the single-provider and multi-provider branches, before the fallback
DwaSelection(requested, available) ==
    IF Len(requested) = 1
    THEN IF provider_metrics[requested[1]].availability > AvailabilityFloor
         THEN [selected |-> requested, cursor |-> rr_cursor]
         ELSE LET r == SelectBestProvider(provider_metrics, rr_cursor,
                           MapRoutingStrategyToDwaPolicy(routing_strategy), {})
              IN  [selected |-> IF r.best = None THEN <<>> ELSE <<r.best>>,
                   cursor |-> r.cursor]
    ELSE ShortlistLoop(Min(Len(available), ShortlistCap), available, <<>>, {},
                       rr_cursor)

\* if not available_providers: raise ValueError
SelectionRaises(requested) == Len(AvailableProviders(requested)) = 0

\* selection that returns what the DWA branches gave, empty or not
SelectProvidersWithoutFallback(requested, rnd) ==
    LET available == AvailableProviders(requested)
    IN  IF SelectionRaises(requested)
        THEN [raised |-> TRUE, selected |-> <<>>, cursor |-> rr_cursor]
        ELSE LET d == DwaSelection(requested, available)
             IN  [raised |-> FALSE, selected |-> d.selected, cursor |-> d.cursor]

\* _select_providers: raises, or returns the providers to use (and moves the cursor)
SelectProviders(requested, rnd) ==
    LET available == AvailableProviders(requested)
    IN  IF SelectionRaises(requested)
        THEN [raised |-> TRUE, selected |-> <<>>, cursor |-> rr_cursor]
        ELSE LET d == DwaSelection(requested, available)
             IN  [raised |-> FALSE,
                  selected |-> IF Len(d.selected) > 0 THEN d.selected
                               ELSE FallbackSelect(available, rnd),
                  cursor |-> d.cursor]

\* the request lists of the model: providers in enumeration order, and every pair
RECURSIVE IncreasingFrom(_, _)
IncreasingFrom(i, n) ==
    IF n = 0 THEN {<<>>}
    ELSE UNION {{<<ProviderOrder[j]>> \o s : s \in IncreasingFrom(j + 1, n - 1)} :
                j \in i..Len(ProviderOrder)}

RequestLists ==
    UNION {IncreasingFrom(1, n) : n \in 1..Min(MaxRequestLen, Len(ProviderOrder))}
    \cup {<<p, q>> : p \in Providers, q \in Providers}

(***************************************************************************)
(* The response cache (services/cache.py).                                 *)
(***************************************************************************)
\* a key that leaves the prompt out
GenerateCacheKeyWithoutPrompt(prompt, provider, model) ==
    <<"llm_response", 1, provider, model>>

\* _generate_cache_key("llm_response", {prompt, provider, model}): the digest of
\* the three fields, which the model keeps apart by keeping the fields
GenerateCacheKey(prompt, provider, model) == <<"llm_response", prompt, provider, model>>

LlmKey(prompt, p) == GenerateCacheKey(prompt, p, GetProviderModel(p))

CacheKeys == {LlmKey(q, p) : q \in Prompts, p \in Providers}

\* cache_value of cache_llm_response
CacheValue(p, response, response_time) ==
    [response |-> response, provider |-> p, model |-> GetProviderModel(p),
     response_time |-> response_time]

\* json.dumps and json.loads of a cache value: the stored text and its parse
JsonDumps(v) == <<"json", v.response, v.provider, v.model, v.response_time>>

JsonLoads(j) ==
    [response |-> j[2], provider |-> j[3], model |-> j[4], response_time |-> j[5]]

\* RedisCache.get once the backend has answered; the read raises when the
\* server is down, and the exception is caught. The answer is <<>> for None and
\* <<value>> for a value; Raised stands for an exception that leaves get.
Raised == <<"raised", "raised">>

CacheGetAlwaysMiss(key) == <<>>

\* get without its except clause
CacheGetUncaught(key) ==
    IF ~redis_up THEN Raised
    ELSE IF redis[key] = Absent THEN <<>> ELSE <<JsonLoads(redis[key])>>

CacheGet(key) ==
    IF ~redis_up \/ redis[key] = Absent THEN <<>> ELSE <<JsonLoads(redis[key])>>

\* RedisCache.set once the backend has answered: the keyspace after it; the
\* write raises when the server is down, and the exception is caught
CacheSet(key, value) ==
    IF redis_up THEN [redis EXCEPT ![key] = JsonDumps(value)] ELSE redis

\* set without its except clause
CacheSetUncaught == IF redis_up THEN "true" ELSE "raise"

\* what RedisCache.set gives its caller once the backend has answered: "true",
\* "false", or "raise" for an exception that leaves it
CacheSetAnswer == IF redis_up THEN "true" ELSE "false"

(***************************************************************************)
(* One provider request (LLMOrchestrator._execute_provider_request).       *)
(***************************************************************************)
Terminal == {"succeeded", "failed", "cancelled"}

\* A task: where it stands, the result it holds, and its history: whether the
\* result came from the cache, how often it called the provider API, the load
\* of its provider right after its admission (0 before it), and its place among
\* the call's tasks in the order they returned or raised (0 before it did).
NewTask ==
    [st |-> "pending", response |-> 0, response_time |-> 0, from_cache |-> FALSE,
     invoked |-> 0, admitted |-> 0, finished |-> 0]

\* an admission that is not counted
AdmitUncounted(load, p) == load

\* self.providers_load[provider].current_load += 1
Admit(load, p) == [load EXCEPT ![p] = @ + 1]

\* the finally clause: current_load -= 1 however the try block is left
\* (how: "return", "raise" or "cancel")
ReleaseUnlessRaised(load, p, how) ==
    IF how = "raise" THEN load ELSE [load EXCEPT ![p] = @ - 1]

ReleaseUnlessCancelled(load, p, how) ==
    IF how = "cancel" THEN load ELSE [load EXCEPT ![p] = @ - 1]

Release(load, p, how) == [load EXCEPT ![p] = @ - 1]

TaskIndexes(c) == 1..Len(tasks[c])

\* the task record after the load was admitted and the provider API called
Admitted(t, load, p) ==
    [t EXCEPT !.st = "in_flight", !.admitted = Admit(load, p)[p], !.invoked = @ + 1]

\* a failed call issued again
ReleasedForRetry(t, st) ==
    [t EXCEPT !.st = IF st = "failed" THEN "pending" ELSE st]

\* the task record after the finally clause
Released(t, st) == [t EXCEPT !.st = st]

\* the tasks of the call that have returned or raised
ResultsIn(c) == {i \in TaskIndexes(c) : tasks[c][i].st \in {"succeeded", "failed"}}

\* the record of a task that returns or raises now: the next to complete
Finished(t, c) == [t EXCEPT !.finished = Cardinality(ResultsIn(c)) + 1]

\* the cache entered for streaming requests too
CacheSuspendsWhateverStream(c) == is_connected

\* whether the request reads and writes the cache, once the cache is entered:
\* RedisCache.get and set return at once when the cache is not connected
CacheSuspends(c) == ~request[c].stream /\ is_connected

\* tasks run one after the other: each awaited before the next is begun
ScheduledInTurn(ts, i) ==
    i \in 1..Len(ts) /\ \A j \in 1..(i - 1) : ts[j].st \in Terminal

\* whether task i of the call may run: asyncio.create_task has scheduled every
\* coroutine of the list before the call awaits any of them
Scheduled(ts, i) == i \in 1..Len(ts)

\* First stretch of the task: up to the cache read, or, with no cache to read,
\* up to the provider call.
TaskStart(c, i) ==
    /\ pc[c] = "gathering"
    /\ Scheduled(tasks[c], i)
    /\ tasks[c][i].st = "pending"
    /\ IF CacheSuspends(c)
       THEN /\ tasks' = [tasks EXCEPT ![c][i].st = "cache_get"]
            /\ UNCHANGED current_load
       ELSE /\ tasks' = [tasks EXCEPT ![c][i] =
                            Admitted(@, current_load, providers_to_use[c][i])]
            /\ current_load' = Admit(current_load, providers_to_use[c][i])
    /\ UNCHANGED <<has_api_key, userVars, max_concurrent_requests, http, routing_strategy, redis_configured, redis_up, error_rate, provider_metrics,
                   rr_cursor, is_connected, redis, pc, request, providers_to_use,
                   outcome, requests_left, limit_concurrency>>

\* The cache read answers: a hit returns the cached result, a miss (or a failed
\* read) goes on to admit the load and call the provider. An exception out of
\* the cache would leave the coroutine here, before its try block.
CacheGetReturn(c, i) ==
    /\ pc[c] = "gathering"
    /\ i \in TaskIndexes(c)
    /\ tasks[c][i].st = "cache_get"
    /\ LET p == providers_to_use[c][i]
           cached == CacheGet(LlmKey(request[c].prompt, p))
       IN  IF cached = Raised
             THEN /\ tasks' = [tasks EXCEPT ![c][i] =
                                  Finished([@ EXCEPT !.st = "failed"], c)]
                  /\ UNCHANGED current_load
             ELSE IF Len(cached) > 0
             THEN /\ tasks' = [tasks EXCEPT ![c][i] =
                                  [@ EXCEPT !.st = "succeeded",
                                            !.response = cached[1].response,
                                            !.response_time = cached[1].response_time,
                                            !.from_cache = TRUE,
                                            !.finished = Finished(tasks[c][i], c).finished]]
                  /\ UNCHANGED current_load
             ELSE /\ tasks' = [tasks EXCEPT ![c][i] = Admitted(@, current_load, p)]
                  /\ current_load' = Admit(current_load, p)
    /\ UNCHANGED <<has_api_key, userVars, max_concurrent_requests, http, routing_strategy, redis_configured, redis_up, error_rate, provider_metrics,
                   rr_cursor, is_connected, redis, pc, request, providers_to_use,
                   outcome, requests_left, limit_concurrency>>

\* The provider call returns a text: the result is built and, for a request that
\* is not streaming, handed to the cache.
ProviderReturn(c, i) ==
    /\ pc[c] = "gathering"
    /\ i \in TaskIndexes(c)
    /\ tasks[c][i].st = "in_flight"
    /\ \E text \in Texts, rt \in Latencies :
         LET t == [tasks[c][i] EXCEPT !.response = text, !.response_time = rt]
         IN  IF CacheSuspends(c)
             THEN /\ tasks' = [tasks EXCEPT ![c][i] = [t EXCEPT !.st = "cache_set"]]
                  /\ UNCHANGED current_load
             ELSE /\ tasks' = [tasks EXCEPT ![c][i] =
                                  Finished(Released(t, "succeeded"), c)]
                  /\ current_load' =
                        Release(current_load, providers_to_use[c][i], "return")
    /\ UNCHANGED <<has_api_key, userVars, max_concurrent_requests, http, routing_strategy, redis_configured, redis_up, error_rate, provider_metrics,
                   rr_cursor, is_connected, redis, pc, request, providers_to_use,
                   outcome, requests_left, limit_concurrency>>

\* the sibling tasks after task i failed: asyncio.gather leaves them alone
SiblingsCancelled(ts, i) ==
    [j \in 1..Len(ts) |->
        IF j # i /\ ts[j].st \notin Terminal
        THEN [ts[j] EXCEPT !.st = "cancelled"]
        ELSE ts[j]]

SiblingsAfterFailure(ts, i) == ts

\* The provider call raises: the finally clause runs and the task fails.
ProviderRaise(c, i) ==
    /\ pc[c] = "gathering"
    /\ i \in TaskIndexes(c)
    /\ tasks[c][i].st = "in_flight"
    /\ tasks' = [tasks EXCEPT ![c] =
                    SiblingsAfterFailure(
                        [@ EXCEPT ![i] = Finished(Released(@, "failed"), c)], i)]
    /\ current_load' = Release(current_load, providers_to_use[c][i], "raise")
    /\ UNCHANGED <<has_api_key, userVars, max_concurrent_requests, http, routing_strategy, redis_configured, redis_up, error_rate, provider_metrics,
                   rr_cursor, is_connected, redis, pc, request, providers_to_use,
                   outcome, requests_left, limit_concurrency>>

\* The cache write answers (stored, or failed inside RedisCache.set, which then
\* reports False): the result is returned and the finally clause runs. An
\* exception out of the cache would leave the try block in place of the result.
CacheSetReturn(c, i) ==
    /\ pc[c] = "gathering"
    /\ i \in TaskIndexes(c)
    /\ tasks[c][i].st = "cache_set"
    /\ LET p == providers_to_use[c][i]
           t == tasks[c][i]
       IN  redis' = CacheSet(LlmKey(request[c].prompt, p),
                             CacheValue(p, t.response, t.response_time))
    /\ tasks' = [tasks EXCEPT ![c][i] =
                    Finished(Released(@, IF CacheSetAnswer = "raise" THEN "failed"
                                         ELSE "succeeded"), c)]
    /\ current_load' = Release(current_load, providers_to_use[c][i],
                               IF CacheSetAnswer = "raise" THEN "raise" ELSE "return")
    /\ UNCHANGED <<has_api_key, userVars, max_concurrent_requests, http, routing_strategy, redis_configured, redis_up, error_rate, provider_metrics,
                   rr_cursor, is_connected, pc, request, providers_to_use,
                   outcome, requests_left, limit_concurrency>>

\* The caller cancelled the call: CancelledError is thrown into the task where it
\* is suspended. Before the try block nothing was admitted; inside it the
\* finally clause runs. A write the backend had accepted may have taken place.
TaskCancelled(c, i) ==
    /\ pc[c] = "cancelling"
    /\ i \in TaskIndexes(c)
    /\ tasks[c][i].st \notin Terminal
    /\ LET p == providers_to_use[c][i]
           t == tasks[c][i]
       IN  /\ IF t.st \in {"in_flight", "cache_set"}
              THEN /\ tasks' = [tasks EXCEPT ![c][i] = Released(@, "cancelled")]
                   /\ current_load' = Release(current_load, p, "cancel")
              ELSE /\ tasks' = [tasks EXCEPT ![c][i].st = "cancelled"]
                   /\ UNCHANGED current_load
           /\ IF t.st = "cache_set"
              THEN \/ redis' = CacheSet(LlmKey(request[c].prompt, p),
                                         CacheValue(p, t.response, t.response_time))
                   \/ UNCHANGED redis
              ELSE UNCHANGED redis
    /\ UNCHANGED <<has_api_key, userVars, max_concurrent_requests, http, routing_strategy, redis_configured, redis_up, error_rate, provider_metrics,
                   rr_cursor, is_connected, pc, request, providers_to_use,
                   outcome, requests_left, limit_concurrency>>

(***************************************************************************)
(* One orchestration (LLMOrchestrator.orchestrate).                        *)
(***************************************************************************)
NoRequest == [prompt |-> 0, stream |-> FALSE]

\* no request received yet by POST /orchestrate for the call
NoHttp ==
    [status |-> "none", providers |-> <<>>, prompt |-> 0, stream |-> FALSE,
     results |-> <<>>, errors |-> <<>>]

\* what random.choice may draw, where the strategy draws at all
RandomDraws ==
    IF routing_strategy = "random" THEN 1..Len(ProviderOrder) ELSE {1}

NoOutcome == [results |-> <<>>, errors |-> <<>>]

Active(c) == pc[c] \in {"gathering", "cancelling"}

\* The call from its entry to the await of asyncio.gather: the providers are
\* selected and one task per provider is created; _select_providers may raise.
OrchestrateCall(c, requested, prompt, stream) ==
    /\ pc[c] = "idle"
    /\ \A d \in Calls : d < c => pc[d] # "idle"
    /\ requests_left > 0
    /\ Cardinality({d \in Calls : pc[d] # "idle"}) < limit_concurrency
    /\ requests_left' = requests_left - 1
    /\ \E rnd \in RandomDraws :
         LET r == SelectProviders(requested, rnd)
         IN  IF r.raised
             THEN /\ pc' = [pc EXCEPT ![c] = "no_providers"]
                  /\ UNCHANGED <<request, providers_to_use, tasks, rr_cursor>>
             ELSE /\ pc' = [pc EXCEPT ![c] = "gathering"]
                  /\ request' = [request EXCEPT ![c] =
                                    [prompt |-> prompt, stream |-> stream]]
                  /\ providers_to_use' = [providers_to_use EXCEPT ![c] = r.selected]
                  /\ tasks' = [tasks EXCEPT ![c] =
                                  [i \in 1..Len(r.selected) |-> NewTask]]
                  /\ rr_cursor' = r.cursor
    /\ UNCHANGED <<has_api_key, userVars, max_concurrent_requests, routing_strategy, redis_configured, redis_up, current_load, error_rate,
                   provider_metrics, is_connected, redis, outcome,
                   limit_concurrency>>

\* orchestrate called with some request
Start(c) ==
    /\ \E requested \in RequestLists, prompt \in Prompts, stream \in BOOLEAN :
          OrchestrateCall(c, requested, prompt, stream)
    /\ UNCHANGED http

\* what awaiting the tasks gives: asyncio.gather(*tasks, return_exceptions=True)
\* is done when every task is, and hands exceptions over as results
GatherFirstException(ts) ==
    IF \E i \in 1..Len(ts) : ts[i].st = "failed" THEN "raise"
    ELSE IF \A i \in 1..Len(ts) : ts[i].st \in Terminal THEN "done"
    ELSE "pending"

GatherFirstCompleted(ts) ==
    IF \E i \in 1..Len(ts) : ts[i].st \in Terminal THEN "done" ELSE "pending"

\* a join that goes on waiting for the tasks that failed
GatherUntilAllSucceed(ts) ==
    IF \A i \in 1..Len(ts) : ts[i].st = "succeeded" THEN "done" ELSE "pending"

Gather(ts) ==
    IF \A i \in 1..Len(ts) : ts[i].st \in Terminal THEN "done" ELSE "pending"

PenaltyTime == 1      \* response_time=1.0 reported with a failure
ErrorRateUp == 10     \* error_rate + 0.1
ErrorRateDown == 1    \* error_rate - 0.01

\* _update_provider_load on the error rate of one provider
UpdateProviderLoad(e, success) ==
    IF success THEN Max(0, e - ErrorRateDown) ELSE Min(100, e + ErrorRateUp)

RECURSIVE ProcessResultsLosesErrors(_, _, _, _)
ProcessResultsLosesErrors(sel, ts, i, acc) ==
    IF i > Len(ts) THEN acc
    ELSE LET p == sel[i]
             t == ts[i]
         IN  IF t.st = "failed"
             THEN ProcessResultsLosesErrors(sel, ts, i + 1,
                    [acc EXCEPT
                       !.error_rate[p] = Min(100, @ + 10),
                       !.metrics[p] = RecordRequestResult(@, FALSE, 1)])
             ELSE ProcessResultsLosesErrors(sel, ts, i + 1,
                    [acc EXCEPT
                       !.results = Append(@, [provider |-> p,
                                              response |-> t.response,
                                              response_time |-> t.response_time]),
                       !.error_rate[p] = Max(0, @ - 1),
                       !.metrics[p] = RecordRequestResult(@, TRUE, t.response_time)])

\* the loop taking the results as the tasks completed, not as they were listed
RECURSIVE ProcessResultsAsCompleted(_, _, _, _)
ProcessResultsAsCompleted(sel, ts, i, acc) ==
    IF i > Len(ts) THEN acc
    ELSE LET k == CHOOSE k \in 1..Len(ts) : ts[k].finished = i
             p == sel[k]
             t == ts[k]
         IN  IF t.st = "failed"
             THEN ProcessResultsAsCompleted(sel, ts, i + 1,
                    [acc EXCEPT
                       !.errors = Append(@, [provider |-> p]),
                       !.error_rate[p] = Min(100, @ + 10),
                       !.metrics[p] = RecordRequestResult(@, FALSE, 1)])
             ELSE ProcessResultsAsCompleted(sel, ts, i + 1,
                    [acc EXCEPT
                       !.results = Append(@, [provider |-> p,
                                              response |-> t.response,
                                              response_time |-> t.response_time]),
                       !.error_rate[p] = Max(0, @ - 1),
                       !.metrics[p] = RecordRequestResult(@, TRUE, t.response_time)])

\* the loop over task_results, from index i on; acc holds the two lists, the
\* error rates and the DWA metrics built so far
RECURSIVE ProcessResults(_, _, _, _)
ProcessResults(sel, ts, i, acc) ==
    IF i > Len(ts) THEN acc
    ELSE LET p == sel[i]
             t == ts[i]
         IN  IF t.st = "failed"
             THEN ProcessResults(sel, ts, i + 1,
                    [acc EXCEPT
                       !.errors = Append(@, [provider |-> p]),
                       !.error_rate[p] = UpdateProviderLoad(@, FALSE),
                       !.metrics[p] = RecordRequestResult(@, FALSE, PenaltyTime)])
             ELSE ProcessResults(sel, ts, i + 1,
                    [acc EXCEPT
                       !.results = Append(@, [provider |-> p,
                                              response |-> t.response,
                                              response_time |-> t.response_time]),
                       !.error_rate[p] = UpdateProviderLoad(@, TRUE),
                       !.metrics[p] = RecordRequestResult(@, TRUE, t.response_time)])

\* The call resumes from the await: the results are processed, fed to the DWA
\* and returned.
OrchestrateReturn(c) ==
    /\ pc[c] = "gathering"
    /\ Gather(tasks[c]) # "pending"
    /\ IF Gather(tasks[c]) = "raise"
       THEN /\ pc' = [pc EXCEPT ![c] = "raised"]
            /\ UNCHANGED <<outcome, error_rate, provider_metrics>>
       ELSE LET acc == ProcessResults(providers_to_use[c], tasks[c], 1,
                          [results |-> <<>>, errors |-> <<>>,
                           error_rate |-> error_rate, metrics |-> provider_metrics])
            IN  /\ pc' = [pc EXCEPT ![c] = "returned"]
                /\ outcome' = [outcome EXCEPT ![c] =
                                  [results |-> acc.results, errors |-> acc.errors]]
                /\ error_rate' = acc.error_rate
                /\ provider_metrics' = acc.metrics
    /\ UNCHANGED <<has_api_key, userVars, max_concurrent_requests, routing_strategy, redis_configured, redis_up, current_load, rr_cursor,
                   is_connected, redis, request, providers_to_use, tasks,
                   requests_left, limit_concurrency>>

Join(c) == OrchestrateReturn(c) /\ UNCHANGED http

\* The caller cancels the call while it awaits its tasks (a deadline, a client
\* that went away): the gather cancels every task that is not done.
Cancel(c) ==
    /\ pc[c] = "gathering"
    /\ pc' = [pc EXCEPT ![c] = "cancelling"]
    /\ UNCHANGED <<has_api_key, userVars, max_concurrent_requests, http, routing_strategy, redis_configured, redis_up, current_load, error_rate,
                   provider_metrics, rr_cursor, is_connected, redis, request,
                   providers_to_use, tasks, outcome, requests_left, limit_concurrency>>

\* Every task has ended: CancelledError leaves the cancelled call.
JoinCancelled(c) ==
    /\ pc[c] = "cancelling"
    /\ \A i \in TaskIndexes(c) : tasks[c][i].st \in Terminal
    /\ pc' = [pc EXCEPT ![c] = "cancelled"]
    /\ UNCHANGED <<has_api_key, userVars, max_concurrent_requests, http, routing_strategy, redis_configured, redis_up, current_load, error_rate,
                   provider_metrics, rr_cursor, is_connected, redis, request,
                   providers_to_use, tasks, outcome, requests_left, limit_concurrency>>

\* The caller has taken the result or the exception; the call is over.
Finish(c) ==
    /\ pc[c] \in {"returned", "no_providers", "cancelled", "raised"}
    /\ pc' = [pc EXCEPT ![c] = "idle"]
    /\ request' = [request EXCEPT ![c] = NoRequest]
    /\ providers_to_use' = [providers_to_use EXCEPT ![c] = <<>>]
    /\ tasks' = [tasks EXCEPT ![c] = <<>>]
    /\ outcome' = [outcome EXCEPT ![c] = NoOutcome]
    /\ UNCHANGED <<has_api_key, userVars, max_concurrent_requests, http, routing_strategy, redis_configured, redis_up, current_load, error_rate,
                   provider_metrics, rr_cursor, is_connected, redis, requests_left,
                   limit_concurrency>>

(***************************************************************************)
(* The cache's connection and the Redis keyspace.                          *)
(***************************************************************************)
\* RedisCache.connect, when the ping succeeds. It needs settings.redis_url,
\* redis_db and redis_max_connections, and a write needs
\* settings.cache_expire_seconds: config.py declares redis_url alone, with no
\* value, so with the settings as they stand connect always fails
\* (redis_configured is FALSE); redis_configured is TRUE for settings that
\* provide the four.
CacheConnect ==
    /\ redis_configured
    /\ redis_up
    /\ ~is_connected
    /\ is_connected' = TRUE
    /\ UNCHANGED <<has_api_key, userVars, max_concurrent_requests, http, routing_strategy, redis_configured, redis_up, current_load, error_rate,
                   provider_metrics, rr_cursor, redis, pc, request,
                   providers_to_use, tasks, outcome, requests_left, limit_concurrency>>

\* RedisCache.disconnect
CacheDisconnect ==
    /\ is_connected
    /\ is_connected' = FALSE
    /\ UNCHANGED <<has_api_key, userVars, max_concurrent_requests, http, routing_strategy, redis_configured, redis_up, current_load, error_rate,
                   provider_metrics, rr_cursor, redis, pc, request,
                   providers_to_use, tasks, outcome, requests_left, limit_concurrency>>

\* The Redis server goes away, or comes back.
RedisDown ==
    /\ redis_configured
    /\ redis_up
    /\ redis_up' = FALSE
    /\ UNCHANGED <<has_api_key, userVars, max_concurrent_requests, http, routing_strategy, redis_configured, current_load,
                   error_rate, provider_metrics, rr_cursor, is_connected, redis,
                   pc, request, providers_to_use, tasks, outcome, requests_left,
                   limit_concurrency>>

RedisUp ==
    /\ redis_configured
    /\ ~redis_up
    /\ redis_up' = TRUE
    /\ UNCHANGED <<has_api_key, userVars, max_concurrent_requests, http, routing_strategy, redis_configured, current_load,
                   error_rate, provider_metrics, rr_cursor, is_connected, redis,
                   pc, request, providers_to_use, tasks, outcome, requests_left,
                   limit_concurrency>>

\* The expiry time given to setex runs out.
RedisExpire(k) ==
    /\ redis[k] # Absent
    /\ redis' = [redis EXCEPT ![k] = Absent]
    /\ UNCHANGED <<has_api_key, userVars, max_concurrent_requests, http, routing_strategy, redis_configured, redis_up, current_load, error_rate,
                   provider_metrics, rr_cursor, is_connected, pc, request,
                   providers_to_use, tasks, outcome, requests_left, limit_concurrency>>

(***************************************************************************)
(* Specifications.                                                         *)
(***************************************************************************)
\* nothing answered yet by the user router
NoAnswer == [op |-> "none", id |-> 0, status |-> 0, active_sessions |-> 0]

\* _sessions = {}
NoSessions == [id \in {} |-> 0]

Init ==
    /\ has_api_key \in [Providers -> BOOLEAN]
    /\ max_concurrent_requests \in 1..MaxConcurrentRequests
    /\ routing_strategy \in RoutingStrategies
    /\ redis_configured \in BOOLEAN
    /\ limit_concurrency \in 1..NumCalls
    /\ current_load = [p \in Providers |-> 0]
    /\ error_rate = [p \in Providers |-> 0]
    /\ provider_metrics = [p \in Providers |-> NeutralMetrics]
    /\ rr_cursor = 0
    /\ is_connected = FALSE
    /\ redis_up = redis_configured
    /\ redis = [k \in CacheKeys |-> Absent]
    /\ pc = [c \in Calls |-> "idle"]
    /\ request = [c \in Calls |-> NoRequest]
    /\ providers_to_use = [c \in Calls |-> <<>>]
    /\ tasks = [c \in Calls |-> <<>>]
    /\ outcome = [c \in Calls |-> NoOutcome]
    /\ requests_left \in 1..MaxOrchestrations
    /\ http = [c \in Calls |-> NoHttp]
    /\ sessions = NoSessions
    /\ answer = NoAnswer
    /\ created = 0
    /\ deleted = {}

Next ==
    \/ \E c \in Calls : Start(c)
    \/ \E c \in Calls, i \in 1..ShortlistCap : TaskStart(c, i)
    \/ \E c \in Calls, i \in 1..ShortlistCap : CacheGetReturn(c, i)
    \/ \E c \in Calls, i \in 1..ShortlistCap : ProviderReturn(c, i)
    \/ \E c \in Calls, i \in 1..ShortlistCap : ProviderRaise(c, i)
    \/ \E c \in Calls, i \in 1..ShortlistCap : CacheSetReturn(c, i)
    \/ \E c \in Calls, i \in 1..ShortlistCap : TaskCancelled(c, i)
    \/ \E c \in Calls : Join(c)
    \/ \E c \in Calls : Cancel(c)
    \/ \E c \in Calls : JoinCancelled(c)
    \/ \E c \in Calls : Finish(c)
    \/ CacheConnect
    \/ CacheDisconnect
    \/ RedisDown
    \/ RedisUp
    \/ \E k \in CacheKeys : RedisExpire(k)

\* one orchestration, under every configuration of keys and the default strategy
InitFanOut ==
    /\ Init
    /\ max_concurrent_requests = DefaultMaxConcurrentRequests
    /\ limit_concurrency = 1
    /\ requests_left = 1
    /\ routing_strategy = "load_balanced"

Spec == InitFanOut /\ [][Next]_vars

\* requests side by side under the settings as they stand (no Redis), and the
\* single request under settings with Redis; one provider configured at most
InitConcurrent ==
    /\ Init
    /\ max_concurrent_requests = DefaultMaxConcurrentRequests
    /\ limit_concurrency = NumCalls
    /\ requests_left = IF redis_configured THEN 1 ELSE MaxOrchestrations
    /\ routing_strategy = "load_balanced"
    /\ Cardinality({p \in Providers : has_api_key[p]}) <= 1

SpecConcurrent == InitConcurrent /\ [][Next]_vars

\* requests one after the other, on a deployment with Redis and one provider
InitCache ==
    /\ Init
    /\ max_concurrent_requests = DefaultMaxConcurrentRequests
    /\ limit_concurrency = 1
    /\ requests_left = MaxOrchestrations
    /\ routing_strategy = "load_balanced"
    /\ redis_configured
    /\ Cardinality({p \in Providers : has_api_key[p]}) = 1

SpecCache == InitCache /\ [][Next]_vars

\* The DWA by itself: outcomes reported to it one after the other, as the loop of
\* orchestrate reports them, by callers that stay within MaxReports outcomes
\* on MaxReported providers.
RECURSIVE SumOfReports(_)
SumOfReports(ps) ==
    IF ps = {} THEN 0
    ELSE LET p == CHOOSE p \in ps : TRUE
         IN  provider_metrics[p].total_requests + SumOfReports(ps \ {p})

DwaRecord(p, success, rt) ==
    /\ SumOfReports(Providers) < MaxReports
    /\ Cardinality({q \in Providers :
                        q = p \/ provider_metrics[q].total_requests > 0})
          <= MaxReported
    /\ provider_metrics' =
          [provider_metrics EXCEPT ![p] = RecordRequestResult(@, success, rt)]
    /\ UNCHANGED <<has_api_key, userVars, max_concurrent_requests, http, routing_strategy, redis_configured, redis_up, current_load, error_rate,
                   rr_cursor, is_connected, redis, pc, request, providers_to_use,
                   tasks, outcome, requests_left, limit_concurrency>>

InitDwa ==
    /\ Init
    /\ max_concurrent_requests = DefaultMaxConcurrentRequests
    /\ has_api_key = [p \in Providers |-> TRUE]
    /\ routing_strategy = "load_balanced"
    /\ ~redis_configured
    /\ limit_concurrency = 1
    /\ requests_left = 1

NextDwa ==
    \E p \in Providers, success \in BOOLEAN, rt \in Latencies :
        DwaRecord(p, success, rt)

SpecDwa == InitDwa /\ [][NextDwa]_vars

\* a reset that marks the provider healthy and leaves its record as it is
ResetDwaMetricsHealthOnly(metrics, provider_name) ==
    [p \in Providers |->
        IF provider_name \in {p, None}
        THEN [metrics[p] EXCEPT !.is_healthy = TRUE]
        ELSE metrics[p]]

\* a reset that takes no notice of the provider named
ResetDwaMetricsOfAll(metrics, provider_name) ==
    [p \in Providers |-> NeutralMetrics]

\* reset_dwa_metrics(provider_name): the metrics after it; with no name, every
\* provider of dwa.provider_metrics is reset in turn
ResetDwaMetrics(metrics, provider_name) ==
    IF provider_name # None THEN ResetProviderMetrics(metrics, provider_name)
    ELSE [p \in Providers |-> ResetProviderMetrics(metrics, p)[p]]

\* The DWA as its callers drive it: outcome reports, calls of
\* select_best_provider (the best-provider query excludes nothing), and the
\* administrative reset.
DwaSelect ==
    /\ rr_cursor' = SelectBestProvider(provider_metrics, rr_cursor,
                        MapRoutingStrategyToDwaPolicy(routing_strategy),
                        {}).cursor
    /\ UNCHANGED <<has_api_key, userVars, max_concurrent_requests, http, routing_strategy, redis_configured, redis_up, current_load, error_rate,
                   provider_metrics, is_connected, redis, pc, request,
                   providers_to_use, tasks, outcome, requests_left, limit_concurrency>>

ResetDwaMetricsCall(provider_name) ==
    /\ provider_metrics' = ResetDwaMetrics(provider_metrics, provider_name)
    /\ provider_metrics' # provider_metrics
    /\ UNCHANGED <<has_api_key, userVars, max_concurrent_requests, http, routing_strategy, redis_configured, redis_up, current_load, error_rate,
                   rr_cursor, is_connected, redis, pc, request, providers_to_use,
                   tasks, outcome, requests_left, limit_concurrency>>

InitDwaCalls ==
    /\ Init
    /\ max_concurrent_requests = DefaultMaxConcurrentRequests
    /\ has_api_key = [p \in Providers |-> TRUE]
    /\ routing_strategy = "round_robin"
    /\ ~redis_configured
    /\ limit_concurrency = 1
    /\ requests_left = 1

NextDwaCalls ==
    \/ \E p \in Providers, success \in BOOLEAN, rt \in Latencies :
          SumOfReports(Providers) < MaxReportsBetween /\ DwaRecord(p, success, rt)
    \/ DwaSelect
    \/ \E provider_name \in Providers \cup {None} : ResetDwaMetricsCall(provider_name)

SpecDwaCalls == InitDwaCalls /\ [][NextDwaCalls]_vars

\* One selection in an orchestrator that has run for a while: every provider has
\* a run of failed calls behind it (none, as many as the threshold, or as many
\* as take the availability down to the floor), reported by earlier orchestrate
\* calls that have all returned. A request that names one provider is
\* dispatched to it while its availability is above the floor and some
\* provider is eligible, which is how each of these records comes about.
RECURSIVE AfterFailures(_, _)
AfterFailures(m, k) ==
    IF k = 0 THEN m
    ELSE AfterFailures(RecordRequestResult(m, FALSE, PenaltyTime), k - 1)

RECURSIVE ErrorRateAfterFailures(_)
ErrorRateAfterFailures(k) ==
    IF k = 0 THEN 0 ELSE UpdateProviderLoad(ErrorRateAfterFailures(k - 1), FALSE)

FailuresBefore == {0, FailureThreshold, MaxFailuresBefore}

InitSelection ==
    /\ has_api_key \in [Providers -> BOOLEAN]
    /\ max_concurrent_requests = DefaultMaxConcurrentRequests
    /\ routing_strategy \in RoutingStrategies
    /\ redis_configured = FALSE
    /\ limit_concurrency = 1
    /\ current_load = [p \in Providers |-> 0]
    /\ \E failed \in [Providers -> FailuresBefore] :
          /\ (\E p \in Providers : failed[p] > 0)
                => \E q \in Providers : has_api_key[q]
          /\ error_rate = [p \in Providers |-> ErrorRateAfterFailures(failed[p])]
          /\ provider_metrics =
                [p \in Providers |-> AfterFailures(NeutralMetrics, failed[p])]
    /\ rr_cursor = 0
    /\ is_connected = FALSE
    /\ redis_up = FALSE
    /\ redis = [k \in CacheKeys |-> Absent]
    /\ pc = [c \in Calls |-> "idle"]
    /\ request = [c \in Calls |-> NoRequest]
    /\ providers_to_use = [c \in Calls |-> <<>>]
    /\ tasks = [c \in Calls |-> <<>>]
    /\ http = [c \in Calls |-> NoHttp]
    /\ sessions = NoSessions
    /\ answer = NoAnswer
    /\ created = 0
    /\ deleted = {}
    /\ outcome = [c \in Calls |-> NoOutcome]
    /\ requests_left = 1

NextSelection == \E c \in Calls : Start(c)

SpecSelection == InitSelection /\ [][NextSelection]_vars

\* one request to an orchestrator constructed under every value of
\* max_concurrent_requests from 1 on, with one provider configured at most
InitConfigured ==
    /\ Init
    /\ limit_concurrency = 1
    /\ requests_left = 1
    /\ routing_strategy = "load_balanced"
    /\ Cardinality({p \in Providers : has_api_key[p]}) <= 1

SpecConfigured == InitConfigured /\ [][Next]_vars

\* The orchestrator with its administration: requests, and resets of the DWA
\* metrics between and during them. One provider has a key; without Redis the
\* requests run side by side, with Redis one after the other.
InitOperated ==
    /\ Init
    /\ max_concurrent_requests = DefaultMaxConcurrentRequests
    /\ has_api_key = [p \in Providers |-> p = ProviderOrder[1]]
    /\ routing_strategy = "load_balanced"
    /\ limit_concurrency = IF redis_configured THEN 1 ELSE NumCalls
    /\ requests_left = MaxOrchestrations

NextOperated ==
    \/ Next
    \/ \E provider_name \in Providers \cup {None} : ResetDwaMetricsCall(provider_name)

SpecOperated == InitOperated /\ [][NextOperated]_vars

\* Requests one after the other to an orchestrator configured with the
\* priority strategy and without Redis, the first two providers of the order
\* holding keys; the callers await their calls.
InitPriority ==
    /\ Init
    /\ max_concurrent_requests = DefaultMaxConcurrentRequests
    /\ has_api_key = [p \in Providers |-> IndexOf(p) <= 2]
    /\ routing_strategy = "priority"
    /\ ~redis_configured
    /\ limit_concurrency = 1
    /\ requests_left = MaxOrchestrations

NextPriority ==
    \/ \E c \in Calls : Start(c)
    \/ \E c \in Calls, i \in 1..ShortlistCap : TaskStart(c, i)
    \/ \E c \in Calls, i \in 1..ShortlistCap : ProviderReturn(c, i)
    \/ \E c \in Calls, i \in 1..ShortlistCap : ProviderRaise(c, i)
    \/ \E c \in Calls : Join(c)
    \/ \E c \in Calls : Finish(c)

SpecPriority == InitPriority /\ [][NextPriority]_vars

(***************************************************************************)
(* The endpoint POST /orchestrate (routers/llm.py).                        *)
(***************************************************************************)
\* background processing for the requests of several providers alone
UseAsyncMultiOnly(providers, stream) == Len(providers) > 1

\* use_async = len(request.providers) > 1 or request.stream
UseAsync(providers, stream) == Len(providers) > 1 \/ stream

\* the background tasks added and not yet begun
Queued == {d \in Calls : http[d].status = "processing" /\ pc[d] = "idle"}

\* orchestrate_llms, from the arrival of the request to its answer or to the
\* await of the tasks of orchestrate. With use_async the background task is
\* added and the answer "processing" returned; else orchestrate is called, and
\* an exception out of it is answered by HTTPException(500).
OrchestrateLlms(c) ==
    /\ http[c].status = "none"
    /\ \A d \in Calls : d < c => http[d].status # "none"
    /\ \E requested \in RequestLists, prompt \in Prompts, stream \in BOOLEAN :
          LET received == [NoHttp EXCEPT !.providers = requested,
                                         !.prompt = prompt, !.stream = stream]
          IN  IF UseAsync(requested, stream)
              THEN /\ requests_left > Cardinality(Queued)
                   /\ http' = [http EXCEPT ![c] =
                                  [received EXCEPT !.status = "processing"]]
                   /\ UNCHANGED <<has_api_key, userVars, max_concurrent_requests,
                                  routing_strategy, current_load, error_rate,
                                  provider_metrics, rr_cursor, redis_configured,
                                  is_connected, redis_up, redis, pc, request,
                                  providers_to_use, tasks, outcome, requests_left,
                                  limit_concurrency>>
              ELSE /\ Queued = {}
                   /\ OrchestrateCall(c, requested, prompt, stream)
                   /\ http' = [http EXCEPT ![c] =
                                  [received EXCEPT !.status =
                                      IF pc'[c] = "no_providers" THEN "500"
                                      ELSE "awaiting"]]

\* process_orchestration_async begins, after the answer was sent: orchestrate
\* is called with the request, and an exception out of it is logged
ProcessOrchestrationAsync(c) ==
    /\ c \in Queued
    /\ OrchestrateCall(c, http[c].providers, http[c].prompt, http[c].stream)
    /\ UNCHANGED http

\* orchestrate returns to the endpoint, which answers "completed" with the two
\* lists, or to process_orchestration_async, which logs their lengths
OrchestrateLlmsReturn(c) ==
    /\ OrchestrateReturn(c)
    /\ http' = [http EXCEPT ![c] =
                   IF @.status # "awaiting" THEN @
                   ELSE IF pc'[c] = "raised" THEN [@ EXCEPT !.status = "500"]
                   ELSE [@ EXCEPT !.status = "completed",
                                  !.results = outcome'[c].results,
                                  !.errors = outcome'[c].errors]]

\* one request to the endpoint of a server without Redis, under every
\* configuration of keys
InitHttp ==
    /\ Init
    /\ max_concurrent_requests = DefaultMaxConcurrentRequests
    /\ routing_strategy = "load_balanced"
    /\ ~redis_configured
    /\ limit_concurrency = 1
    /\ requests_left = 1

NextHttp ==
    \/ \E c \in Calls : OrchestrateLlms(c)
    \/ \E c \in Calls : ProcessOrchestrationAsync(c)
    \/ \E c \in Calls, i \in 1..ShortlistCap : TaskStart(c, i)
    \/ \E c \in Calls, i \in 1..ShortlistCap : ProviderReturn(c, i)
    \/ \E c \in Calls, i \in 1..ShortlistCap : ProviderRaise(c, i)
    \/ \E c \in Calls : OrchestrateLlmsReturn(c)

SpecHttp == InitHttp /\ [][NextHttp]_vars

(***************************************************************************)
(* The session store (routers/user.py).                                    *)
(***************************************************************************)
SessionIds == 1..MaxSessions
Times == 1..MaxTime
UserIds == {None, "user"}
Themes == {"light", "dark"}

Answer(op, id, status) == [NoAnswer EXCEPT !.op = op, !.id = id, !.status = status]

\* a delete that leaves the session in the store
DelSessionKept(store, id) == store

\* del _sessions[session_id]
DelSession(store, id) == [x \in DOMAIN store \ {id} |-> store[x]]

\* _sessions[session_id] = session
PutSession(store, id, session) ==
    [x \in DOMAIN store \cup {id} |-> IF x = id THEN session ELSE store[x]]

\* create_session: uuid4 gives an id that no session has had
CreateSession(user_id, now) ==
    /\ created < MaxSessions
    /\ LET session_id == created + 1
       IN  /\ sessions' = PutSession(sessions, session_id,
                              [user_id |-> user_id, created_at |-> now,
                               last_activity |-> now, theme |-> "light"])
           /\ answer' = Answer("create", session_id, 200)
    /\ created' = created + 1
    /\ UNCHANGED <<deleted, llmVars>>

\* get_session
GetSession(session_id, now) ==
    /\ IF session_id \notin DOMAIN sessions
       THEN /\ answer' = Answer("get", session_id, 404)
            /\ UNCHANGED sessions
       ELSE /\ sessions' = [sessions EXCEPT ![session_id].last_activity = now]
            /\ answer' = Answer("get", session_id, 200)
    /\ UNCHANGED <<created, deleted, llmVars>>

\* update_preferences
UpdatePreferences(session_id, theme, now) ==
    /\ IF session_id \notin DOMAIN sessions
       THEN /\ answer' = Answer("update", session_id, 404)
            /\ UNCHANGED sessions
       ELSE /\ sessions' = [sessions EXCEPT ![session_id].theme = theme,
                                            ![session_id].last_activity = now]
            /\ answer' = Answer("update", session_id, 200)
    /\ UNCHANGED <<created, deleted, llmVars>>

\* delete_session
DeleteSession(session_id) ==
    /\ IF session_id \notin DOMAIN sessions
       THEN /\ answer' = Answer("delete", session_id, 404)
            /\ UNCHANGED <<sessions, deleted>>
       ELSE /\ sessions' = DelSession(sessions, session_id)
            /\ deleted' = deleted \cup {session_id}
            /\ answer' = Answer("delete", session_id, 200)
    /\ UNCHANGED <<created, llmVars>>

\* get_sessions_count
GetSessionsCount ==
    /\ answer' = [Answer("count", 0, 200) EXCEPT
                     !.active_sessions = Cardinality(DOMAIN sessions)]
    /\ UNCHANGED <<sessions, created, deleted, llmVars>>

\* session_heartbeat
SessionHeartbeat(session_id, now) ==
    /\ IF session_id \notin DOMAIN sessions
       THEN /\ answer' = Answer("heartbeat", session_id, 404)
            /\ UNCHANGED sessions
       ELSE /\ sessions' = [sessions EXCEPT ![session_id].last_activity = now]
            /\ answer' = Answer("heartbeat", session_id, 200)
    /\ UNCHANGED <<created, deleted, llmVars>>

InitSessions ==
    /\ Init
    /\ max_concurrent_requests = DefaultMaxConcurrentRequests
    /\ has_api_key = [p \in Providers |-> FALSE]
    /\ routing_strategy = "load_balanced"
    /\ ~redis_configured
    /\ limit_concurrency = 1
    /\ requests_left = 1

NextSessions ==
    \/ \E user_id \in UserIds, now \in Times : CreateSession(user_id, now)
    \/ \E session_id \in SessionIds, now \in Times : GetSession(session_id, now)
    \/ \E session_id \in SessionIds, theme \in Themes, now \in Times :
          UpdatePreferences(session_id, theme, now)
    \/ \E session_id \in SessionIds : DeleteSession(session_id)
    \/ GetSessionsCount
    \/ \E session_id \in SessionIds, now \in Times :
          SessionHeartbeat(session_id, now)

SpecSessions == InitSessions /\ [][NextSessions]_vars

\* Calls that their callers await to the end, on a loop that runs every task
\* that is ready: a task that can take its next stretch takes it, a cache
\* operation and a provider call that were awaited answer (the call by a text
\* or by an exception), and a call whose tasks have all ended resumes. No
\* caller cancels: a cancellation ends a provider call or a cache operation
\* before it has completed.
TaskStep(c, i) ==
    \/ TaskStart(c, i)
    \/ CacheGetReturn(c, i)
    \/ ProviderReturn(c, i)
    \/ ProviderRaise(c, i)
    \/ CacheSetReturn(c, i)

\* one request under every configuration of keys, and requests one after the
\* other (the later ones find the cache filled) where Redis is configured and
\* at most one provider has a key
InitLive ==
    /\ Init
    /\ max_concurrent_requests = DefaultMaxConcurrentRequests
    /\ limit_concurrency = 1
    /\ requests_left =
          IF redis_configured /\ Cardinality({p \in Providers : has_api_key[p]}) <= 1
          THEN MaxOrchestrations ELSE 1
    /\ routing_strategy = "load_balanced"

NextLive ==
    \/ \E c \in Calls : Start(c)
    \/ \E c \in Calls, i \in 1..ShortlistCap : TaskStart(c, i)
    \/ \E c \in Calls, i \in 1..ShortlistCap : CacheGetReturn(c, i)
    \/ \E c \in Calls, i \in 1..ShortlistCap : ProviderReturn(c, i)
    \/ \E c \in Calls, i \in 1..ShortlistCap : ProviderRaise(c, i)
    \/ \E c \in Calls, i \in 1..ShortlistCap : CacheSetReturn(c, i)
    \/ \E c \in Calls : Join(c)
    \/ \E c \in Calls : Finish(c)
    \/ CacheConnect
    \/ CacheDisconnect
    \/ RedisDown
    \/ RedisUp
    \/ \E k \in CacheKeys : RedisExpire(k)

Fairness ==
    /\ \A c \in Calls : \A i \in 1..ShortlistCap : WF_tasks(TaskStep(c, i))
    /\ \A c \in Calls : WF_pc(Join(c))

SpecLive == InitLive /\ [][NextLive]_vars /\ Fairness

(***************************************************************************)
(* Properties.                                                             *)
(***************************************************************************)
Held == {"in_flight", "cache_set"}

TasksIn(c, states) == {i \in TaskIndexes(c) : tasks[c][i].st \in states}

Occurrences(list, p) == Cardinality({k \in 1..Len(list) : list[k].provider = p})

\* C1: a call that returned lists every dispatched provider exactly once, in the
\* errors when its task failed and in the results when it succeeded; of three
\* tasks with two failures there is one result and two errors, and the provider
\* that succeeded has no consecutive failures.
C1_OutcomePartition ==
    \A c \in Calls :
        pc[c] = "returned" =>
            LET sel == providers_to_use[c]
                res == outcome[c].results
                err == outcome[c].errors
            IN  /\ Len(res) + Len(err) = Len(sel)
                /\ \A i \in TaskIndexes(c) :
                      /\ Occurrences(res, sel[i]) + Occurrences(err, sel[i]) = 1
                      /\ Occurrences(err, sel[i]) = 1 <=> tasks[c][i].st = "failed"
                      /\ Occurrences(res, sel[i]) = 1 <=> tasks[c][i].st = "succeeded"
                /\ ( /\ Len(sel) = 3
                     /\ Cardinality(TasksIn(c, {"failed"})) = 2
                     /\ Cardinality(TasksIn(c, {"succeeded"})) = 1 )
                   => /\ Len(res) = 1
                      /\ Len(err) = 2
                      /\ provider_metrics[res[1].provider].consecutive_failures = 0

C1_Witness ==
    \E c \in Calls :
        /\ pc[c] = "returned"
        /\ Len(providers_to_use[c]) = 3
        /\ Cardinality(TasksIn(c, {"failed"})) = 2
        /\ Cardinality(TasksIn(c, {"succeeded"})) = 1

C3_Inv ==
    \A c \in Calls : \A i \in TaskIndexes(c) :
        tasks[c][i].from_cache =>
            /\ tasks[c][i].st = "succeeded"
            /\ tasks[c][i].invoked = 0
            /\ tasks[c][i].admitted = 0
            /\ pc[c] = "returned" =>
                  \E k \in 1..Len(outcome[c].results) :
                      /\ outcome[c].results[k].provider = providers_to_use[c][i]
                      /\ outcome[c].results[k].response = tasks[c][i].response

C3_Act ==
    \A c \in Calls : \A i \in TaskIndexes(c) :
        LET key == LlmKey(request[c].prompt, providers_to_use[c][i])
        IN  ( /\ pc[c] = "gathering"
              /\ tasks[c][i].st = "cache_get"
              /\ tasks'[c][i].st # "cache_get"
              /\ redis_up
              /\ redis[key] # Absent )
            => /\ tasks'[c][i].from_cache
               /\ tasks'[c][i].st = "succeeded"
               /\ tasks'[c][i].response = redis[key][2]
               /\ tasks'[c][i].invoked = 0
               /\ current_load' = current_load

\* C3: a cache read that finds the entry stored for (prompt, provider, model)
\* returns the stored response text as the task's result, without a call of the
\* provider API and without an admission of load.
C3_CachedResponseServed == []C3_Inv /\ [][C3_Act]_vars

C3_Witness ==
    \E c \in Calls :
        /\ pc[c] = "returned"
        /\ requests_left = 0
        /\ Len(tasks[c]) = 1
        /\ tasks[c][1].from_cache
        /\ outcome[c].results[1].response = tasks[c][1].response

\* C4: the load of a provider never exceeds its cap.
C4_NoAdmissionAboveCap == \A p \in Providers : current_load[p] <= max_load

C5_Act ==
    \A c \in Calls : \A i \in TaskIndexes(c) :
        ( /\ tasks[c][i].st \in Held
          /\ (i \in DOMAIN tasks'[c] => tasks'[c][i].st \notin Held) )
        => /\ i \in DOMAIN tasks'[c]
           /\ tasks'[c][i].st \in Terminal
           /\ current_load'[providers_to_use[c][i]]
                = current_load[providers_to_use[c][i]] - 1

C5_Inv ==
    \A p \in Providers :
        current_load[p] =
            Cardinality({x \in Calls \X (1..ShortlistCap) :
                            /\ x[2] \in TaskIndexes(x[1])
                            /\ providers_to_use[x[1]][x[2]] = p
                            /\ tasks[x[1]][x[2]].st \in Held})

\* C5: a task that leaves the try block, by a result, by an exception or by a
\* cancellation, takes its provider's load down by one in that step, and the
\* load is at all times the number of tasks inside the try block.
C5_AdmitPairedWithRelease == []C5_Inv /\ [][C5_Act]_vars

C5_Witness ==
    \E c \in Calls :
        /\ pc[c] = "cancelled"
        /\ \E i \in TaskIndexes(c) :
              tasks[c][i].st = "cancelled" /\ tasks[c][i].admitted > 0
        /\ \E i \in TaskIndexes(c) : tasks[c][i].st = "failed"
        /\ \E i \in TaskIndexes(c) :
              tasks[c][i].st = "succeeded" /\ tasks[c][i].admitted > 0
        /\ \A p \in Providers : current_load[p] = 0

\* C6: once no call is running, the load of every provider is 0.
C6_LoadBackToZero ==
    (\A c \in Calls : ~Active(c)) => \A p \in Providers : current_load[p] = 0

C6_Witness ==
    /\ \A c \in Calls : pc[c] = "returned" /\ Len(tasks[c]) = 1
    /\ \A c \in Calls : providers_to_use[c] = providers_to_use[1]
    /\ \E c \in Calls : tasks[c][1].admitted = NumCalls
    /\ \A p \in Providers : current_load[p] = 0

C7_Eligible(p) == has_api_key[p] /\ current_load[p] < max_load

C7_NoneEligible == \A p \in Providers : ~C7_Eligible(p)

C7_Inv ==
    \A req \in RequestLists :
        SelectionRaises(req)
            <=> ( /\ \A k \in 1..Len(req) : ~C7_Eligible(req[k])
                  /\ C7_NoneEligible )

C7_Act ==
    \A c \in Calls :
        (pc[c] = "idle" /\ pc'[c] # "idle") =>
            /\ pc'[c] = "no_providers" <=> C7_NoneEligible
            /\ pc'[c] = "no_providers" =>
                  /\ tasks' = tasks
                  /\ current_load' = current_load
                  /\ provider_metrics' = provider_metrics

\* C7: selection raises exactly when no requested provider and no known provider
\* is eligible, and a call that raises so has created no task and has changed
\* neither a load nor a DWA metric.
C7_NoProvidersAvailable == []C7_Inv /\ [][C7_Act]_vars

C7_Witness ==
    \E c \in Calls :
        /\ pc[c] = "no_providers"
        /\ \E p \in Providers : has_api_key[p] /\ current_load[p] = max_load

\* C8: no call ends with an exception of a task: a call whose tasks have all
\* ended can return, and it returns the two lists, with an error for every
\* provider when every task failed.
C8_OnlyNoProvidersFails ==
    \A c \in Calls :
        /\ pc[c] # "raised"
        /\ pc[c] = "no_providers" => Len(tasks[c]) = 0
        /\ (pc[c] = "gathering" /\ TasksIn(c, Terminal) = TaskIndexes(c))
              => ENABLED Join(c)
        /\ (pc[c] = "returned" /\ TasksIn(c, {"failed"}) = TaskIndexes(c))
              => /\ outcome[c].results = <<>>
                 /\ Len(outcome[c].errors) = Len(providers_to_use[c])

C8_Witness ==
    \E c \in Calls :
        /\ pc[c] = "returned"
        /\ Len(tasks[c]) = 3
        /\ TasksIn(c, {"failed"}) = TaskIndexes(c)
        /\ Len(outcome[c].errors) = 3

C9_Inv ==
    \A c \in Calls :
        pc[c] = "returned" =>
            \A i \in TaskIndexes(c) :
                /\ tasks[c][i].st \in {"succeeded", "failed"}
                /\ tasks[c][i].st = "succeeded"
                      => Occurrences(outcome[c].results, providers_to_use[c][i]) = 1

C9_Act ==
    \A c \in Calls : \A i \in TaskIndexes(c) :
        ( /\ tasks[c][i].st # "failed"
          /\ i \in DOMAIN tasks'[c]
          /\ tasks'[c][i].st = "failed" )
        => /\ pc'[c] = pc[c]
           /\ \A j \in TaskIndexes(c) \ {i} : tasks'[c][j] = tasks[c][j]

\* C9: the step in which a task fails changes no sibling task and does not end
\* the call, and in a call that returned every task has ended by its own success
\* or failure, a success being in the results.
C9_BranchesIsolated == []C9_Inv /\ [][C9_Act]_vars

C9_Witness ==
    \E c \in Calls :
        /\ pc[c] = "gathering"
        /\ Len(tasks[c]) = 3
        /\ tasks[c][1].st = "failed"
        /\ tasks[c][2].st = "succeeded"
        /\ tasks[c][3].st = "cache_set"

\* C10: a call that returned has every task ended, by success or failure, and a
\* call with a task still running cannot return.
C10_JoinAllBarrier ==
    \A c \in Calls :
        /\ pc[c] = "returned" =>
              TasksIn(c, {"succeeded", "failed"}) = TaskIndexes(c)
        /\ (pc[c] = "gathering" /\ TasksIn(c, Terminal) # TaskIndexes(c))
              => ~ENABLED Join(c)

C10_Witness ==
    \E c \in Calls :
        /\ pc[c] = "returned"
        /\ Len(tasks[c]) = 3
        /\ tasks[c][1].st = "succeeded"
        /\ tasks[c][2].st = "failed"
        /\ tasks[c][3].st = "succeeded"

PositionIn(list, p) == CHOOSE k \in 1..Len(list) : list[k].provider = p

\* both tasks ended the way `st` says, and i's entry precedes j's in the list
ListedBefore(c, list, st, i, j) ==
    ( /\ tasks[c][i].st = st
      /\ tasks[c][j].st = st )
    => PositionIn(list, providers_to_use[c][i]) < PositionIn(list, providers_to_use[c][j])

CallsMade(c, p, states) ==
    {i \in TaskIndexes(c) : /\ providers_to_use[c][i] = p
                            /\ tasks[c][i].invoked > 0
                            /\ tasks[c][i].st \in states}

C13_Rule == {p \in Providers : has_api_key[p] /\ current_load[p] < max_load}

C13_Inv ==
    /\ \A p \in Providers : GetProviderStats[p].available <=> p \in C13_Rule
    /\ \A req \in RequestLists :
          Range(AvailableProviders(req)) =
              IF Range(req) \cap C13_Rule # {} THEN Range(req) \cap C13_Rule
              ELSE C13_Rule

C13_Act ==
    \A c \in Calls :
        (pc[c] = "idle" /\ pc'[c] # "idle") =>
            UNCHANGED <<current_load, has_api_key, error_rate, provider_metrics,
                        redis, is_connected>>

\* C13: the providers reported available, and the providers a selection
\* considers, are those with an API key and a load below the cap, and no others;
\* the step that runs the checks changes no load, key, metric or cache state.
C13_EligibleByRule == []C13_Inv /\ [][C13_Act]_vars

C13_Witness ==
    \E c, d \in Calls : \E p, q \in Providers :
        /\ pc[c] = "gathering"
        /\ providers_to_use[c] = <<p>>
        /\ tasks[c][1].st = "in_flight"
        /\ has_api_key[p] /\ current_load[p] = max_load
        /\ ~has_api_key[q] /\ current_load[q] = 0
        /\ ~GetProviderStats[p].available /\ ~GetProviderStats[q].available
        /\ pc[d] = "no_providers"

\* the entry of the call's results for task i, if there is one
InResults(c, i) ==
    \E k \in 1..Len(outcome[c].results) :
        /\ outcome[c].results[k].provider = providers_to_use[c][i]
        /\ outcome[c].results[k].response = tasks[c][i].response

C14_Act ==
    \A c \in Calls : \A i \in TaskIndexes(c) :
        /\ ( /\ pc[c] = "gathering"
              /\ tasks[c][i].st = "pending"
              /\ tasks'[c][i].st # "pending"
              /\ ~is_connected )
            => /\ tasks'[c][i].st = "in_flight"
               /\ tasks'[c][i].invoked = 1
               /\ pc'[c] = "gathering"
        /\ ( /\ pc[c] = "gathering"
              /\ tasks[c][i].st = "cache_get"
              /\ tasks'[c][i].st # "cache_get"
              /\ ~redis_up )
            => /\ tasks'[c][i].st = "in_flight"
               /\ tasks'[c][i].invoked = 1
               /\ pc'[c] = "gathering"

C14_Inv ==
    \A c \in Calls :
        /\ pc[c] # "raised"
        /\ pc[c] = "returned" =>
              \A i \in TaskIndexes(c) :
                  (tasks[c][i].invoked = 1 /\ tasks[c][i].st = "succeeded")
                      => InResults(c, i)

\* C14: a lookup made while the cache is not connected, and a lookup whose read
\* the server fails, are misses: the task goes on to call the provider and the
\* call goes on; no call ends by an exception of the cache, and a provider call
\* that succeeded is in the results of the call that returned.
C14_ReadOutageIsMiss == []C14_Inv /\ [][C14_Act]_vars

\* a stored response was there, yet the provider was called and its other
\* response returned: the lookup was lost to the outage
C14_Witness ==
    \E c \in Calls :
        LET key == LlmKey(request[c].prompt, providers_to_use[c][1])
        IN  /\ pc[c] = "returned"
            /\ ~request[c].stream
            /\ Len(tasks[c]) = 1
            /\ tasks[c][1].st = "succeeded"
            /\ tasks[c][1].invoked = 1
            /\ redis[key] # Absent
            /\ redis[key][2] # tasks[c][1].response
            /\ outcome[c].results[1].response = tasks[c][1].response

C15_Act ==
    \A c \in Calls : \A i \in TaskIndexes(c) :
        LET p == providers_to_use[c][i]
        IN  /\ ( /\ pc[c] = "gathering"
                  /\ tasks[c][i].st = "cache_set"
                  /\ tasks'[c][i].st # "cache_set"
                  /\ ~redis_up )
                => /\ CacheSetAnswer = "false"
                   /\ redis' = redis
                   /\ tasks'[c][i].st = "succeeded"
                   /\ tasks'[c][i].response = tasks[c][i].response
                   /\ current_load'[p] = current_load[p] - 1
            /\ ( /\ pc[c] = "gathering"
                  /\ tasks[c][i].st = "in_flight"
                  /\ tasks'[c][i].st \notin {"in_flight", "failed"}
                  /\ ~request[c].stream
                  /\ ~is_connected )
                => /\ redis' = redis
                   /\ tasks'[c][i].st = "succeeded"
                   /\ current_load'[p] = current_load[p] - 1
            /\ ( /\ pc[c] = "gathering"
                  /\ pc'[c] = "returned"
                  /\ tasks[c][i].st = "succeeded" )
                => /\ provider_metrics'[p].successful_requests
                         = provider_metrics[p].successful_requests + 1
                   /\ provider_metrics'[p].consecutive_failures = 0

C15_Inv ==
    \A c \in Calls :
        pc[c] = "returned" =>
            \A i \in TaskIndexes(c) : tasks[c][i].st = "succeeded" => InResults(c, i)

\* C15: a cache write that fails (the cache not connected, or the server failing
\* the write) reports False and raises nothing: the task succeeds with the
\* provider's response, its load is released in that step, the keyspace is as it
\* was, and the call that returns lists the result and reports it to the DWA as
\* a success.
C15_WriteFailureKeepsSuccess == []C15_Inv /\ [][C15_Act]_vars

\* the server is down and the entry stored before is still the old one: the
\* write of the response returned was lost
C15_Witness ==
    \E c \in Calls :
        LET p == providers_to_use[c][1]
            key == LlmKey(request[c].prompt, p)
        IN  /\ pc[c] = "returned"
            /\ ~request[c].stream
            /\ is_connected /\ ~redis_up
            /\ Len(tasks[c]) = 1
            /\ tasks[c][1].st = "succeeded"
            /\ tasks[c][1].invoked = 1
            /\ redis[key] # Absent
            /\ redis[key][2] # tasks[c][1].response
            /\ InResults(c, 1)
            /\ current_load[p] = 0
            /\ provider_metrics[p].successful_requests = 2

\* C16: the accuracy and the availability of every provider lie between 0 and 1
\* (0 and 100 hundredths), and its successful requests do not exceed its total.
C16_MetricsInRange ==
    \A p \in Providers :
        /\ provider_metrics[p].accuracy \in 0..100
        /\ provider_metrics[p].availability \in 0..100
        /\ provider_metrics[p].successful_requests <= provider_metrics[p].total_requests

\* both clamps at work: an eleventh failure in a row, and a first success
C16_Witness ==
    \E p, q \in Providers :
        /\ provider_metrics[p].total_requests = 11
        /\ provider_metrics[p].successful_requests = 0
        /\ provider_metrics[p].availability = 0
        /\ provider_metrics[p].accuracy = 0
        /\ provider_metrics[q].total_requests = 1
        /\ provider_metrics[q].successful_requests = 1
        /\ provider_metrics[q].availability = 100

\* C17: a report of a success leaves the provider with no consecutive failures,
\* a report of a failure with one more than before, and a provider that no
\* report is about keeps its count.
C17_ConsecutiveFailures ==
    [][\A p \in Providers :
          LET m == provider_metrics[p]
              n == provider_metrics'[p]
          IN  /\ ( /\ n.total_requests = m.total_requests + 1
                    /\ n.successful_requests = m.successful_requests + 1 )
                  => n.consecutive_failures = 0
              /\ ( /\ n.total_requests = m.total_requests + 1
                    /\ n.successful_requests = m.successful_requests )
                  => n.consecutive_failures = m.consecutive_failures + 1
              /\ n.total_requests = m.total_requests
                  => n.consecutive_failures = m.consecutive_failures]_vars

\* three failures and then a success on one provider, two failures on another
C17_Witness ==
    \E p, q \in Providers :
        /\ provider_metrics[p].total_requests = 4
        /\ provider_metrics[p].successful_requests = 1
        /\ provider_metrics[p].availability = 75
        /\ provider_metrics[p].consecutive_failures = 0
        /\ provider_metrics[q].total_requests = 2
        /\ provider_metrics[q].consecutive_failures = 2

RECURSIVE AfterSuccesses(_, _)
AfterSuccesses(m, k) ==
    IF k = 0 THEN m ELSE AfterSuccesses(RecordRequestResult(m, TRUE, 1), k - 1)

\* C19: a provider that is not healthy is healthy after some number of reported
\* successes and nothing else: as many as lift the availability from 0 to the
\* floor, at most.
C19_SuccessesRestoreHealth ==
    \A p \in Providers :
        ~provider_metrics[p].is_healthy =>
            \E k \in 1..(AvailabilityFloor \div AvailabilityUp) :
                AfterSuccesses(provider_metrics[p], k).is_healthy

\* not healthy for its availability alone: a success ended ten failures and
\* left the availability below the floor, and one more success restores it
C19_Witness ==
    \E p \in Providers :
        /\ ~provider_metrics[p].is_healthy
        /\ provider_metrics[p].consecutive_failures = 0
        /\ provider_metrics[p].successful_requests = 1
        /\ provider_metrics[p].availability < AvailabilityFloor
        /\ AfterSuccesses(provider_metrics[p], 1).is_healthy

\* the cursors that differ in what round-robin picks among up to four candidates
C20_Cursors == 0..(Len(ProviderOrder) - 1)

C20_Holds(policy, cursor, exclude) ==
    LET best == SelectBestProvider(provider_metrics, cursor, policy, exclude).best
    IN  /\ best # None =>
              /\ best \in Providers \ exclude
              /\ provider_metrics[best].is_healthy
        /\ (\A p \in Providers \ exclude : ~provider_metrics[p].is_healthy)
              => best = None

\* C20: under every policy and for every exclusion set, select_best_provider
\* gives a healthy provider outside the set, or none; and none when no provider
\* is healthy and outside the set.
C20_SelectsHealthyNotExcluded ==
    \A exclude \in SUBSET Providers :
        /\ \A policy \in SelectionPolicies \ {"round_robin"} :
              C20_Holds(policy, rr_cursor, exclude)
        /\ \A cursor \in C20_Cursors : C20_Holds("round_robin", cursor, exclude)

\* the first provider of the enumeration is unhealthy: every policy passes it
\* over, and with the others excluded there is none to give
C20_Witness ==
    /\ ~provider_metrics[ProviderOrder[1]].is_healthy
    /\ provider_metrics[ProviderOrder[1]].availability > 0
    /\ \A policy \in SelectionPolicies :
          /\ SelectBestProvider(provider_metrics, 0, policy, {}).best
                \in Providers \ {ProviderOrder[1]}
          /\ SelectBestProvider(provider_metrics, 0, policy,
                                Providers \ {ProviderOrder[1]}).best = None

\* what the next n calls of select_best_provider return, from the given cursor
RECURSIVE C21_Calls(_, _)
C21_Calls(cursor, n) ==
    IF n = 0 THEN <<>>
    ELSE LET r == SelectBestProvider(provider_metrics, cursor,
                      MapRoutingStrategyToDwaPolicy(routing_strategy), {})
         IN  <<r.best>> \o C21_Calls(r.cursor, n - 1)

C21_Inv ==
    ( /\ MapRoutingStrategyToDwaPolicy(routing_strategy) = "round_robin"
      /\ \A p \in Providers : provider_metrics[p].is_healthy )
    => C21_Calls(rr_cursor, Len(ProviderOrder) + 1)
         = [k \in 1..(Len(ProviderOrder) + 1) |->
               ProviderOrder[((rr_cursor + k - 1) % Len(ProviderOrder)) + 1]]

C21_Act ==
    /\ rr_cursor' # rr_cursor =>
          /\ rr_cursor' = (rr_cursor + 1) % CursorModulus
          /\ provider_metrics' = provider_metrics
    /\ provider_metrics' # provider_metrics => rr_cursor' = rr_cursor

\* C21: under round-robin with every provider healthy and nothing excluded, the
\* calls of select_best_provider return the providers in enumeration order,
\* starting over after the last; every call moves the cursor by one, and a
\* reported outcome does not move it.
C21_RoundRobinCycles == []C21_Inv /\ [][C21_Act]_vars

\* one call per provider has been made and a failure reported: the next call
\* returns the first provider again
C21_Witness ==
    /\ rr_cursor = Len(ProviderOrder)
    /\ \A p \in Providers : provider_metrics[p].is_healthy
    /\ \E p \in Providers : provider_metrics[p].consecutive_failures = 1
    /\ C21_Calls(rr_cursor, 2) = <<ProviderOrder[1], ProviderOrder[2]>>

C22_IsNeutral(m) ==
    /\ m.availability = 100
    /\ m.accuracy = 100
    /\ m.consecutive_failures = 0
    /\ m.total_requests = 0
    /\ m.successful_requests = 0
    /\ m.is_healthy

C22_Inv ==
    /\ \A x \in Providers :
          LET after == ResetDwaMetrics(provider_metrics, x)
          IN  /\ C22_IsNeutral(after[x])
              /\ \A q \in Providers \ {x} : after[q] = provider_metrics[q]
    /\ \A q \in Providers : C22_IsNeutral(ResetDwaMetrics(provider_metrics, None)[q])

\* a step that takes a provider's counters back to zero is a reset
C22_Act ==
    \A x \in Providers :
        ( /\ provider_metrics[x].total_requests > 0
          /\ provider_metrics'[x].total_requests = 0 )
        => /\ C22_IsNeutral(provider_metrics'[x])
           /\ \/ \A q \in Providers \ {x} : provider_metrics'[q] = provider_metrics[q]
              \/ \A q \in Providers : C22_IsNeutral(provider_metrics'[q])

\* C22: reset_dwa_metrics(X) leaves X with the neutral metrics (availability 1,
\* no consecutive failures, counters 0, healthy) and every other provider with
\* the metrics it had; reset_dwa_metrics() leaves every provider with the
\* neutral metrics.
C22_ResetIsLocal == []C22_Inv /\ [][C22_Act]_vars

\* two providers with outcomes on record, one of them unhealthy: the reset of
\* that one gives it the neutral metrics and leaves the other its own
C22_Witness ==
    \E x, q \in Providers :
        /\ x # q
        /\ ~provider_metrics[x].is_healthy
        /\ provider_metrics[x].total_requests = FailureThreshold
        /\ provider_metrics[q].total_requests > 0
        /\ provider_metrics[q].consecutive_failures > 0
        /\ C22_IsNeutral(ResetDwaMetrics(provider_metrics, x)[x])
        /\ ResetDwaMetrics(provider_metrics, x)[q] = provider_metrics[q]
        /\ ~C22_IsNeutral(ResetDwaMetrics(provider_metrics, x)[q])
        /\ C22_IsNeutral(ResetDwaMetrics(provider_metrics, None)[q])

\* the request names one provider, and selection does not raise
C23_Single(req) == Len(req) = 1 /\ ~SelectionRaises(req)

C23_Best ==
    SelectBestProvider(provider_metrics, rr_cursor,
                       MapRoutingStrategyToDwaPolicy(routing_strategy), {}).best

C23_Inv ==
    \A req \in RequestLists : \A rnd \in RandomDraws :
        C23_Single(req) =>
            LET selected == SelectProviders(req, rnd).selected
            IN  /\ provider_metrics[req[1]].availability > AvailabilityFloor
                      => selected = req
                /\ ( /\ provider_metrics[req[1]].availability <= AvailabilityFloor
                      /\ C23_Best # None )
                      => selected = <<C23_Best>>

\* the providers a starting call dispatches are those _select_providers gives
\* for some request
C23_Act ==
    \A c \in Calls :
        (pc[c] = "idle" /\ pc'[c] = "gathering") =>
            \E req \in RequestLists : \E rnd \in RandomDraws :
                /\ ~SelectionRaises(req)
                /\ providers_to_use'[c] = SelectProviders(req, rnd).selected
                /\ Len(tasks'[c]) = Len(providers_to_use'[c])

\* C23: for a request that names one provider, and a selection that does not
\* fail for want of an eligible provider: with the provider's availability above
\* the floor the call dispatches that provider and no other; with it at or
\* below the floor the call dispatches the provider select_best_provider
\* returns, when it returns one.
C23_SingleProviderValidated == []C23_Inv /\ [][C23_Act]_vars

\* a call dispatched the best provider in place of a requested one whose
\* availability is down to the floor
C23_Witness ==
    \E c \in Calls : \E p \in Providers :
        /\ pc[c] = "gathering"
        /\ provider_metrics[p].availability = AvailabilityFloor
        /\ ~SelectionRaises(<<p>>)
        /\ C23_Best \notin {None, p}
        /\ SelectProviders(<<p>>, 1).selected = <<C23_Best>>
        /\ providers_to_use[c] = <<C23_Best>>
        /\ routing_strategy = "load_balanced"

C24_Bounded(list) ==
    /\ Len(list) <= ShortlistCap
    /\ \A i, j \in 1..Len(list) : i # j => list[i] # list[j]

\* C24: the providers a call dispatches are three at most and all different, and
\* so is what _select_providers gives for every request, one that names a
\* provider twice or names all four included, whatever the failures on record.
C24_AtMostThreeDistinct ==
    /\ \A c \in Calls : C24_Bounded(providers_to_use[c])
    /\ \A req \in RequestLists : \A rnd \in RandomDraws :
          ~SelectionRaises(req) => C24_Bounded(SelectProviders(req, rnd).selected)

\* four providers requested and eligible, three dispatched; and a request that
\* names one of them twice gives it once
C24_Witness ==
    \E c \in Calls :
        /\ pc[c] = "gathering"
        /\ \A p \in Providers : has_api_key[p] /\ provider_metrics[p].is_healthy
        /\ Len(AvailableProviders(ProviderOrder)) = Len(ProviderOrder)
        /\ Len(providers_to_use[c]) = ShortlistCap
        /\ providers_to_use[c] = SelectProviders(ProviderOrder, 1).selected
        /\ SelectProviders(<<ProviderOrder[2], ProviderOrder[2]>>, 1).selected
              = <<ProviderOrder[2]>>

\* the requested providers that are eligible (or all eligible ones) and healthy
C25_HealthyCandidates(req) ==
    {p \in Range(AvailableProviders(req)) : provider_metrics[p].is_healthy}

\* C25: a request that names several providers, with a healthy provider among
\* its eligible candidates, dispatches min(3, k) providers, k being the number
\* of healthy providers among the candidates.
C25_ShortlistFilled ==
    \A req \in RequestLists : \A rnd \in RandomDraws :
        ( /\ Len(req) > 1
          /\ ~SelectionRaises(req)
          /\ C25_HealthyCandidates(req) # {} )
        => Len(SelectProviders(req, rnd).selected)
             = Min(ShortlistCap, Cardinality(C25_HealthyCandidates(req)))

\* C26: the step in which a call selects its providers dispatches to no provider
\* that is unhealthy at that time.
C26_UnhealthyNotDispatched ==
    [][\A c \in Calls :
          (pc[c] = "idle" /\ pc'[c] = "gathering") =>
              \A i \in 1..Len(providers_to_use'[c]) :
                  provider_metrics[providers_to_use'[c][i]].is_healthy]_vars

\* some request, made with no call in progress, is dispatched to p
C27_CanBeDispatched(p) ==
    \E req \in RequestLists : \E rnd \in RandomDraws :
        /\ ~SelectionRaises(req)
        /\ InSeq(p, SelectProviders(req, rnd).selected)

\* C27: a provider that is unhealthy can become healthy again through orchestrate
\* calls alone, for which a call must be dispatched to it (only the report of
\* its own success restores it): with no call in progress, some request is
\* dispatched to every unhealthy provider.
C27_RecoveryReachable ==
    \A p \in Providers :
        ( /\ ~provider_metrics[p].is_healthy
          /\ \A c \in Calls : pc[c] = "idle" )
        => C27_CanBeDispatched(p)

\* the providers C27 fails for: no starting call dispatches a provider without a
\* key whose availability is not above the floor, whatever the other providers'
\* records; and every unhealthy provider with a key can be dispatched
C27_Stranded ==
    [][\A c \in Calls :
          (pc[c] = "idle" /\ pc'[c] = "gathering") =>
              \A i \in 1..Len(providers_to_use'[c]) :
                  LET p == providers_to_use'[c][i]
                  IN  has_api_key[p]
                        \/ provider_metrics[p].availability > AvailabilityFloor]_vars

C27_KeyedCanBeDispatched ==
    \A p \in Providers :
        ( /\ ~provider_metrics[p].is_healthy
          /\ has_api_key[p]
          /\ \A c \in Calls : pc[c] = "idle" )
        => C27_CanBeDispatched(p)

C28_Inv ==
    \A c \in Calls : \A i \in TaskIndexes(c) :
        LET t == tasks[c][i]
        IN  /\ request[c].stream =>
                  /\ t.st \notin {"cache_get", "cache_set"}
                  /\ ~t.from_cache
                  /\ t.st \in {"succeeded", "failed"} => t.invoked = 1
            /\ t.st = "cache_set" => t.invoked = 1 /\ ~request[c].stream

C28_Act ==
    /\ \A k \in CacheKeys :
          (redis'[k] # Absent /\ (redis[k] = Absent \/ redis'[k] # redis[k])) =>
              \E c \in Calls : \E i \in TaskIndexes(c) :
                  LET t == tasks[c][i]
                      p == providers_to_use[c][i]
                  IN  /\ t.st = "cache_set"
                      /\ ~request[c].stream
                      /\ k = LlmKey(request[c].prompt, p)
                      /\ redis'[k] = JsonDumps(CacheValue(p, t.response, t.response_time))
    /\ \A c \in Calls : \A i \in TaskIndexes(c) :
          LET t == tasks[c][i]
              p == providers_to_use[c][i]
              k == LlmKey(request[c].prompt, p)
          IN  /\ (t.st = "in_flight" /\ tasks'[c][i].st = "failed")
                    => redis' = redis
              /\ ( /\ t.st = "in_flight"
                    /\ tasks'[c][i].st \notin {"in_flight", "failed", "cancelled"}
                    /\ ~request[c].stream
                    /\ is_connected )
                    => tasks'[c][i].st = "cache_set"
              /\ ( /\ t.st = "cache_set"
                    /\ tasks'[c][i].st = "succeeded"
                    /\ redis_up )
                    => redis'[k] = JsonDumps(CacheValue(p, t.response, t.response_time))

C29_Triples == Prompts \X Providers \X {GetProviderModel(p) : p \in Providers}

C29_Inv ==
    /\ Cardinality({GenerateCacheKey(x[1], x[2], x[3]) : x \in C29_Triples})
          = Cardinality(C29_Triples)
    /\ \A q \in Prompts : \A p \in Providers :
          LET found == CacheGet(LlmKey(q, p))
          IN  Len(found) > 0 =>
                  /\ found[1].provider = p
                  /\ found[1].model = GetProviderModel(p)
                  /\ found[1].response = redis[LlmKey(q, p)][2]

C29_Act ==
    /\ \A k \in CacheKeys :
          (redis'[k] # Absent /\ (redis[k] = Absent \/ redis'[k] # redis[k])) =>
              /\ \A other \in CacheKeys \ {k} : redis'[other] = redis[other]
              /\ \E c \in Calls : \E i \in TaskIndexes(c) :
                    /\ tasks[c][i].st = "cache_set"
                    /\ k = LlmKey(request[c].prompt, providers_to_use[c][i])
                    /\ CacheGet(k)' =
                          <<CacheValue(providers_to_use[c][i], tasks[c][i].response,
                                       tasks[c][i].response_time)>>
    /\ \A c \in Calls : \A i \in TaskIndexes(c) :
          LET k == LlmKey(request[c].prompt, providers_to_use[c][i])
          IN  ( /\ pc[c] = "gathering"
                /\ tasks[c][i].st = "cache_get"
                /\ tasks'[c][i].st # "cache_get"
                /\ redis_up )
              => IF redis[k] # Absent
                 THEN /\ tasks'[c][i].from_cache
                      /\ tasks'[c][i].response = redis[k][2]
                 ELSE /\ ~tasks'[c][i].from_cache
                      /\ tasks'[c][i].st = "in_flight"

\* C29: different (prompt, provider, model) triples have different keys; a
\* store puts the response under the key of its triple, where a lookup of that
\* triple finds it, in place of what was there, and leaves the entry of every
\* other triple as it was; and a lookup answered by the server returns the
\* response stored under the key of its own triple, or misses when there is
\* none, whatever is stored for other triples.
C29_KeyedByTriple == []C29_Inv /\ [][C29_Act]_vars

\* two prompts to one provider, one call after the other: each response is
\* stored under its own triple, and the second call, which found nothing under
\* its own, returned what its provider call gave
C29_Witness ==
    \E c \in Calls : \E other \in Prompts :
        LET p == providers_to_use[c][1]
        IN  /\ pc[c] = "returned"
            /\ requests_left = 0
            /\ is_connected /\ redis_up
            /\ Len(tasks[c]) = 1
            /\ tasks[c][1].invoked = 1
            /\ other # request[c].prompt
            /\ redis[LlmKey(other, p)] # Absent
            /\ redis[LlmKey(request[c].prompt, p)] # Absent
            /\ redis[LlmKey(request[c].prompt, p)][2] = tasks[c][1].response
            /\ redis[LlmKey(other, p)][2] # tasks[c][1].response
            /\ CacheGet(LlmKey(other, p))[1].response # tasks[c][1].response
            /\ CacheGet(LlmKey(request[c].prompt, p))[1].response = tasks[c][1].response

\* how far a unit is: waiting (PENDING, the cache lookup included), admitted and
\* in flight (the admission and the start of the provider call are one stretch
\* without an await; the cache write still belongs to it), or ended
C30_Stage(st) ==
    CASE st \in {"pending", "cache_get"} -> 0
      [] st \in {"in_flight", "cache_set"} -> 1
      [] OTHER -> 2

C30_Moves(from, to) ==
    \/ to = from
    \/ from = "pending" /\ to \in {"cache_get", "in_flight", "cancelled"}
    \/ from = "cache_get" /\ to \in {"in_flight", "succeeded", "cancelled"}
    \/ from = "in_flight" /\ to \in {"cache_set", "succeeded", "failed", "cancelled"}
    \/ from = "cache_set" /\ to \in {"succeeded", "cancelled"}

C30_Act ==
    \A c \in Calls : \A i \in TaskIndexes(c) :
        i \in DOMAIN tasks'[c] =>
            LET t == tasks[c][i]
                u == tasks'[c][i]
                p == providers_to_use[c][i]
            IN  /\ providers_to_use'[c] = providers_to_use[c]
                /\ C30_Moves(t.st, u.st)
                /\ C30_Stage(u.st) >= C30_Stage(t.st)
                /\ t.st \in Terminal => u = t
                /\ u.invoked >= t.invoked
                /\ (t.st # "in_flight" /\ u.st = "in_flight")
                      => /\ t.invoked = 0 /\ u.invoked = 1
                         /\ current_load'[p] = current_load[p] + 1
                /\ u.st = "failed" => t.st \in {"in_flight", "failed"}

C30_Inv ==
    \A c \in Calls :
        /\ Len(tasks[c]) = Len(providers_to_use[c])
        /\ \A i \in TaskIndexes(c) :
              /\ tasks[c][i].invoked <= 1
              /\ tasks[c][i].st = "failed" => tasks[c][i].invoked = 1
              /\ \A j \in TaskIndexes(c) :
                    i # j => providers_to_use[c][i] # providers_to_use[c][j]

\* C30: a unit goes from waiting to admitted and in flight and from there to
\* succeeded or failed, never back; once ended it stays as it is until the call
\* is over; a call has one unit per dispatched provider, and a unit calls the
\* provider once at most, a failed one exactly once.
C30_NoRetry == []C30_Inv /\ [][C30_Act]_vars

\* a call returned after its first unit failed: one provider call was made for
\* it, as for the unit that succeeded next to it
C30_Witness ==
    \E c \in Calls :
        /\ pc[c] = "returned"
        /\ Len(tasks[c]) = 2
        /\ tasks[c][1].st = "failed" /\ tasks[c][1].invoked = 1
        /\ tasks[c][1].finished = 1
        /\ tasks[c][2].st = "succeeded" /\ tasks[c][2].invoked = 1
        /\ Len(outcome[c].errors) = 1
        /\ provider_metrics[providers_to_use[c][1]].total_requests = 1

\* C31: when every cache operation and every provider call that is awaited
\* answers, a call that has dispatched its tasks returns (a call that has
\* dispatched none has raised NoProvidersAvailable in the step that started it
\* and no call ends by an exception of a task), and whenever no call has tasks
\* out the load of every provider is 0.
C31_Terminates ==
    /\ \A c \in Calls : (pc[c] = "gathering") ~> (pc[c] = "returned")
    /\ [](\A c \in Calls : pc[c] \notin {"raised", "cancelling", "cancelled"})
    /\ []((\A c \in Calls : pc[c] # "gathering")
            => \A p \in Providers : current_load[p] = 0)

C31_Witness ==
    \E c \in Calls :
        /\ pc[c] = "returned"
        /\ Len(tasks[c]) = ShortlistCap
        /\ TasksIn(c, {"failed"}) # {}
        /\ \E k \in CacheKeys : redis[k] # Absent
        /\ \A p \in Providers : current_load[p] = 0

\* C32: the tasks of a call run side by side: a task that has not begun can take
\* its first stretch whatever its siblings are doing, and a task whose cache
\* read is awaited can go on to its provider call while the calls of its
\* siblings are still out.
C32_FanOut ==
    \A c \in Calls : \A i \in TaskIndexes(c) :
        pc[c] = "gathering" =>
            /\ tasks[c][i].st = "pending" => ENABLED TaskStart(c, i)
            /\ tasks[c][i].st = "cache_get" => ENABLED CacheGetReturn(c, i)

\* all the provider calls of a request for three providers are out at once
C32_Witness ==
    \E c \in Calls :
        /\ pc[c] = "gathering"
        /\ Len(tasks[c]) = ShortlistCap
        /\ TasksIn(c, {"in_flight"}) = TaskIndexes(c)
        /\ \A i \in TaskIndexes(c) : current_load[providers_to_use[c][i]] = 1

\* C33: the max_load of every provider is positive, whatever value of
\* max_concurrent_requests from 1 on the orchestrator was constructed under.
C33_MaxLoadPositive == \A p \in Providers : GetProviderStats[p].max_load > 0

\* what holds of the code: max_load is the quotient, 0 for values below the
\* number of providers, and with max_load 0 no provider is ever eligible
C33_MaxLoadIsQuotient ==
    \A p \in Providers :
        /\ GetProviderStats[p].max_load * Len(ProviderOrder) <= max_concurrent_requests
        /\ max_concurrent_requests < (GetProviderStats[p].max_load + 1) * Len(ProviderOrder)
        /\ (max_concurrent_requests < Len(ProviderOrder)) =>
              /\ ~IsProviderAvailable(p)
              /\ \A c \in Calls : pc[c] \in {"idle", "no_providers"}

C34_HeldBy(p) ==
    {x \in Calls \X (1..ShortlistCap) :
        /\ x[2] \in TaskIndexes(x[1])
        /\ providers_to_use[x[1]][x[2]] = p
        /\ tasks[x[1]][x[2]].st \in Held}

C34_Inv ==
    \A p \in Providers :
        current_load[p] >= 0 /\ current_load[p] = Cardinality(C34_HeldBy(p))

C34_Act ==
    /\ \A p \in Providers :
          current_load'[p] # current_load[p] =>
              \E c \in Calls : \E i \in TaskIndexes(c) :
                  /\ providers_to_use[c][i] = p
                  /\ i \in DOMAIN tasks'[c]
                  /\ \/ /\ tasks[c][i].st \notin Held
                        /\ tasks'[c][i].st = "in_flight"
                        /\ current_load'[p] = current_load[p] + 1
                     \/ /\ tasks[c][i].st \in Held
                        /\ tasks'[c][i].st \in Terminal
                        /\ current_load'[p] = current_load[p] - 1
    \* selection, the reports of the outcomes and the resets
    /\ ( \/ pc' # pc
         \/ rr_cursor' # rr_cursor
         \/ error_rate' # error_rate
         \/ provider_metrics' # provider_metrics )
          => current_load' = current_load
    \* a cache hit
    /\ (\E c \in Calls : \E i \in TaskIndexes(c) :
            /\ i \in DOMAIN tasks'[c]
            /\ tasks[c][i].st = "cache_get"
            /\ tasks'[c][i].from_cache)
          => current_load' = current_load

\* C34: the load of a provider is never negative and is at all times the number
\* of its tasks that were admitted and have not been released; a step changes
\* it by one, as the admission or the release of one task, and the steps of
\* selection, of a cache hit, of the outcome reports and of a metrics reset
\* leave it as it is.
C34_LoadCountsAdmitted == []C34_Inv /\ [][C34_Act]_vars

\* a call of the provider is out, after a failure of it was reported and its
\* metrics were reset
C34_Witness ==
    \E p \in Providers :
        /\ current_load[p] = 1
        /\ Cardinality(C34_HeldBy(p)) = 1
        /\ error_rate[p] > 0
        /\ provider_metrics[p] = NeutralMetrics

\* C35: the providers a request is dispatched to are among the eligible
\* candidates of its selection (the requested providers that are eligible, or
\* every eligible provider when none of them is), so a provider without a key
\* is never dispatched to.
C35_DispatchedAreEligible ==
    /\ (\A c \in Calls : pc[c] = "idle") =>
          \A requested \in RequestLists : \A rnd \in RandomDraws :
              LET r == SelectProviders(requested, rnd)
              IN  \A k \in 1..Len(r.selected) :
                      InSeq(r.selected[k], AvailableProviders(requested))
    /\ \A c \in Calls : \A i \in TaskIndexes(c) :
          has_api_key[providers_to_use[c][i]]

\* what holds of the code: the requests for two providers or more are
\* dispatched within the candidates; the branch of the requests for one
\* provider does not look at them
C35_MultiProviderWithinCandidates ==
    (\A c \in Calls : pc[c] = "idle") =>
        \A requested \in RequestLists : \A rnd \in RandomDraws :
            LET r == SelectProviders(requested, rnd)
            IN  \A k \in 1..Len(r.selected) :
                    \/ InSeq(r.selected[k], AvailableProviders(requested))
                    \/ Len(requested) = 1

C36_Restored(p) == ~provider_metrics[p].is_healthy /\ provider_metrics'[p].is_healthy

\* the step reports a success of p
C36_SuccessOf(p) ==
    /\ provider_metrics'[p].total_requests = provider_metrics[p].total_requests + 1
    /\ provider_metrics'[p].successful_requests =
          provider_metrics[p].successful_requests + 1
    /\ provider_metrics'[p].consecutive_failures = 0

\* the step resets the metrics of p: of p alone, or of every provider
C36_ResetOf(p) ==
    /\ C22_IsNeutral(provider_metrics'[p])
    /\ \/ \A q \in Providers \ {p} : provider_metrics'[q] = provider_metrics[q]
       \/ \A q \in Providers : C22_IsNeutral(provider_metrics'[q])

\* C36 as stated: a provider goes from unhealthy to healthy only in a step that
\* reports a success of it.
C36_OnlySuccessRestores ==
    [][\A p \in Providers : C36_Restored(p) => C36_SuccessOf(p)]_vars

\* C36: a provider goes from unhealthy to healthy only in a step that reports a
\* success of it or in a step that resets its metrics to the neutral ones; the
\* report of a failure, a selection and the reset of another provider leave an
\* unhealthy provider unhealthy.
C36_SuccessOrResetRestores ==
    [][\A p \in Providers :
          /\ C36_Restored(p) => (C36_SuccessOf(p) \/ C36_ResetOf(p))
          /\ ( /\ ~provider_metrics[p].is_healthy
               /\ \/ rr_cursor' # rr_cursor
                  \/ provider_metrics'[p].successful_requests
                        = provider_metrics[p].successful_requests
                     /\ provider_metrics'[p].total_requests
                        >= provider_metrics[p].total_requests
                     /\ provider_metrics[p].total_requests > 0 )
              => ~provider_metrics'[p].is_healthy]_vars

\* a provider that was unhealthy after its failures has been restored by a
\* success; a reset of it would restore it as well, and did not take place
C36_Witness ==
    \E p \in Providers :
        /\ provider_metrics[p].is_healthy
        /\ provider_metrics[p].total_requests = FailureThreshold + 1
        /\ provider_metrics[p].successful_requests = 1
        /\ provider_metrics[p].consecutive_failures = 0
        /\ ~AfterFailures(NeutralMetrics, FailureThreshold).is_healthy
        /\ ResetDwaMetrics([provider_metrics EXCEPT ![p] =
                               AfterFailures(NeutralMetrics, FailureThreshold)],
                           p)[p].is_healthy

\* C37: under the priority strategy the first provider chosen for a request is
\* the first provider of the static order among the eligible candidates,
\* whatever the metrics on record. Stated for the requests that name two
\* providers or more, while every provider is healthy.
C37_PriorityFirstInOrder ==
    ( /\ routing_strategy = "priority"
      /\ \A c \in Calls : pc[c] = "idle"
      /\ \A p \in Providers : provider_metrics[p].is_healthy ) =>
        \A requested \in RequestLists : \A rnd \in RandomDraws :
            (Len(requested) >= 2 /\ ~SelectionRaises(requested)) =>
                SelectProviders(requested, rnd).selected[1]
                    = PrioritySelect(AvailableProviders(requested))[1]

\* select_best_provider returns none whatever is excluded, and the request is
\* one whose branch calls it
C38_DwaGivesNone(requested) ==
    /\ Len(Candidates(provider_metrics, {})) = 0
    /\ \/ Len(requested) >= 2
       \/ provider_metrics[requested[1]].availability <= AvailabilityFloor

\* the choice of the routing strategy among the candidates
C38_ByStrategy(p, available) ==
    /\ InSeq(p, available)
    /\ routing_strategy = "round_robin" => p = available[1]
    /\ routing_strategy = "load_balanced" =>
          \A q \in Range(available) : current_load[p] <= current_load[q]
    /\ routing_strategy = "priority" =>
          \A q \in Range(available) : IndexOf(p) <= IndexOf(q)

C38_Inv ==
    (\A c \in Calls : pc[c] = "idle") =>
        \A requested \in RequestLists : \A rnd \in RandomDraws :
            LET r == SelectProviders(requested, rnd)
            IN  ~r.raised =>
                  /\ Len(r.selected) >= 1
                  /\ C38_DwaGivesNone(requested) =>
                        /\ Len(r.selected) = 1
                        /\ C38_ByStrategy(r.selected[1],
                                          AvailableProviders(requested))

C38_Act ==
    \A c \in Calls :
        (pc[c] = "idle" /\ pc'[c] = "gathering") =>
            /\ Len(providers_to_use'[c]) >= 1
            /\ Len(tasks'[c]) = Len(providers_to_use'[c])
            /\ Len(Candidates(provider_metrics, {})) = 0 =>
                  Len(providers_to_use'[c]) = 1

\* C38: a selection that does not raise returns at least one provider, and a
\* call that goes on to dispatch has at least one task; when
\* select_best_provider has no provider to return, the selection is exactly
\* one provider, taken from the eligible candidates by the routing strategy
\* (the first of them under round_robin, one of lowest load under
\* load_balanced, the first in the static order under priority, any of them
\* under random).
C38_NeverEmpty == []C38_Inv /\ [][C38_Act]_vars

\* every provider is unhealthy with its availability at the floor, and a call
\* has been dispatched to one provider, which holds a key
C38_Witness ==
    \E c \in Calls :
        /\ pc[c] = "gathering"
        /\ Len(providers_to_use[c]) = 1
        /\ has_api_key[providers_to_use[c][1]]
        /\ \A p \in Providers :
              /\ ~provider_metrics[p].is_healthy
              /\ provider_metrics[p].availability <= AvailabilityFloor

C39_Async(c) == Len(http[c].providers) > 1 \/ http[c].stream

C39_Inv ==
    \A c \in Calls :
        /\ http[c].status = "processing" <=>
              (http[c].status # "none" /\ C39_Async(c))
        /\ http[c].status = "processing" =>
              http[c].results = <<>> /\ http[c].errors = <<>>
        \* the call awaited: answered when it has returned or raised, not before
        /\ http[c].status = "awaiting" => pc[c] = "gathering"
        /\ http[c].status = "completed" =>
              /\ pc[c] = "returned"
              /\ http[c].results = outcome[c].results
              /\ http[c].errors = outcome[c].errors
        /\ http[c].status = "500" => pc[c] \in {"no_providers", "raised"}
        /\ (pc[c] \in {"no_providers", "raised"} /\ ~C39_Async(c))
              => http[c].status = "500"
        /\ (pc[c] = "returned" /\ ~C39_Async(c)) => http[c].status = "completed"

C39_Act ==
    \A c \in Calls :
        \* the answer "processing" is given before orchestrate is entered
        /\ (http[c].status = "none" /\ http'[c].status = "processing")
              => pc[c] = "idle" /\ pc'[c] = "idle"
        \* and it is the last word to the caller, whatever the call does
        /\ http[c].status = "processing" => http'[c] = http[c]
        /\ http[c].status \in {"completed", "500"} => http'[c] = http[c]

\* C39: POST /orchestrate answers "processing" with empty results and errors
\* exactly for the requests that name more than one provider or are streaming,
\* with orchestrate not yet entered; the answer stays as it is while
\* orchestrate runs, returns or raises NoProvidersAvailable. The other requests
\* are answered when orchestrate has ended: "completed" with the two lists it
\* returned, or 500 when it raised.
C39_ProcessingOrCompleted == []C39_Inv /\ [][C39_Act]_vars

\* a detached orchestration has raised NoProvidersAvailable behind the answer
\* "processing"
C39_Witness ==
    \E c \in Calls :
        /\ http[c].status = "processing"
        /\ http[c].stream
        /\ Len(http[c].providers) = 1
        /\ pc[c] = "no_providers"

C40_Inv ==
    /\ Cardinality(DOMAIN sessions) = created - Cardinality(deleted)
    /\ DOMAIN sessions \cap deleted = {}
    /\ DOMAIN sessions \subseteq 1..created
    /\ answer.op = "count" =>
          answer.active_sessions = created - Cardinality(deleted)

C40_Act ==
    \* an id that is not stored: 404, and the store as it was
    /\ ( /\ answer'.op \in {"get", "update", "heartbeat", "delete"}
         /\ answer'.id \notin DOMAIN sessions )
          => /\ answer'.status = 404
             /\ sessions' = sessions
             /\ created' = created /\ deleted' = deleted
    /\ answer'.status = 404 => answer'.id \notin DOMAIN sessions
    \* the delete of a stored id
    /\ (answer'.op = "delete" /\ answer'.id \in DOMAIN sessions)
          => /\ answer'.status = 200
             /\ DOMAIN sessions' = DOMAIN sessions \ {answer'.id}
             /\ \A x \in DOMAIN sessions' : sessions'[x] = sessions[x]
    \* a deleted id is not found again
    /\ \A x \in deleted : x \notin DOMAIN sessions'
    \* the count reported
    /\ answer'.op = "count" =>
          /\ answer'.active_sessions = created - Cardinality(deleted)
          /\ sessions' = sessions

\* C40: get, update-preferences, heartbeat and delete of a session id that is
\* not stored answer 404 and leave the store as it was; the delete of a stored
\* id removes that session, for good, and leaves every other session as it
\* was; and the count reported is the number of sessions created less the
\* number deleted.
C40_SessionStore == []C40_Inv /\ [][C40_Act]_vars

\* of three sessions created one was deleted and then asked for, and the other
\* two are counted
C40_Witness ==
    /\ created = MaxSessions
    /\ Cardinality(deleted) = 1
    /\ answer.op = "count" /\ answer.active_sessions = MaxSessions - 1
    /\ \E x \in DOMAIN sessions : sessions[x].theme = "dark"

====
